---- MODULE Spec2Model ----
(***************************************************************************)
(* Verification model of the RAL context layer (services/ral-core).       *)
(*                                                                         *)
(*   BusSpec : the dual-path resolution bus (app/core/event_bus.py).       *)
(*             One process per resolve_with_timeout call, cut at its       *)
(*             await points; the response listeners; the slow-path worker. *)
(*   MemSpec : the context memory service                                  *)
(*             (app/services/context_memory.py), one database session per  *)
(*             request (app/core/database.py get_db), cut at the database  *)
(*             round trips.                                                *)
(*   DriftSpec : Context objects in memory with the Context methods and    *)
(*             the drift detector (app/engines/drift.py) applied to them.  *)
(***************************************************************************)
EXTENDS Integers, Sequences, FiniteSets, TLC

\* ------------------------------------------------------------------ bounds
MaxRequests == 2
MaxResponses == 2
NumListeners == 2

MaxContexts == 2
MaxOps == 2
MaxReads == 2
MaxHistory == 2
MaxSnapshots == 3
NumSessions == 2

MaxRecords == 2
MaxCalls == 4
MaxAgeHours == 41

RequestIds == 1..MaxRequests
Listeners == 1..NumListeners
Payloads == {"m1", "m2"}

VARIABLES
    request,            \* per resolve_with_timeout call: position and ContextResolutionResult
    pending_requests,   \* EventBus._pending_requests: request_id -> asyncio.Event state
    results,            \* EventBus._results: request_id -> HighEntropyContext
    published,          \* request ids published on CHANNEL_REQUEST
    inbox,              \* per listener: messages received on CHANNEL_RESPONSE, oldest first
    deliveries,         \* history: how many times a request was handed a response
    late_arrivals,      \* history: request ids whose response was stored with no pending entry
    nresponses          \* number of responses the worker has published

VARIABLES
    db_contexts,        \* committed rows of table contexts, by id
    db_versions,        \* committed rows of table context_versions
    sessions,           \* per request: its AsyncSession (position, ORM object, unflushed and flushed work)
    next_id,            \* next fresh context id (uuid4)
    opseq,              \* number of writing service calls started so far
    cache,              \* context_cache (Redis): the user's list and the entries by context id
    last_read,          \* history: what the latest read call returned
    nreads,             \* number of read calls started so far
    db_history          \* history: the committed contexts table at every moment so far

VARIABLES
    composed            \* the latest composer call: its arguments and the prompt it returned

VARIABLES
    snapshots,          \* ContextVersionManager._snapshots: user id -> snapshots, oldest first
    current_versions,   \* ContextVersionManager._current_versions: user id -> SemanticVersion
    latest,             \* ContextVersionManager._latest: user id -> snapshot id
    max_history,        \* ContextVersionManager.max_history
    next_snapshot_id,   \* next fresh snapshot id (uuid4)
    dict_objects,       \* which dict object each per-type field of a snapshot refers to,
                        \* and the dict objects the manager's caller still holds
    last_restore        \* history: the RestorationResult of the latest restore call

VARIABLES
    contexts,           \* Context objects in memory, by the order they were built
    report,             \* the DriftReport of the latest detect call
    last_call           \* history: the latest call on the objects or the detector

VARIABLES
    entries,            \* ContextualDecayManager._entries of one user: entry key -> ContextEntry
    default_resolution, \* ContextualDecayManager.default_resolution
    decay_now,          \* datetime.now(timezone.utc) as the manager reads it, in ticks
    last_conflict       \* history: the latest create_entry call and the ConflictResult it got

VARIABLES
    temporal_call       \* history: the latest call that read a timezone or a time
                        \* reference, with its arguments and what it returned or raised

driftvars == <<contexts, report, last_call>>

decayvars == <<entries, default_resolution, decay_now, last_conflict>>

timevars == <<temporal_call>>

composevars == <<composed>>

versionvars == <<snapshots, current_versions, latest, max_history,
                 next_snapshot_id, dict_objects, last_restore>>

enginevars == <<composevars, versionvars, decayvars, timevars>>

readvars == <<cache, last_read, nreads, db_history>>

memvars == <<db_contexts, db_versions, sessions, next_id, opseq, readvars>>

busvars == <<request, pending_requests, results, published, inbox, deliveries,
             late_arrivals, nresponses>>

\* ============================================================ resolution bus

NoEntry == "absent"
NoResult == [request_id |-> 0, content |-> "none"]

\* HighEntropyContext built by handle_response from the response message
HighEntropyContext(rid, payload) == [request_id |-> rid, content |-> payload]

\* HighEntropyContext returned when the event was set but no result is stored
EmptyHighEntropyContext(rid) == [request_id |-> rid, content |-> "empty"]

\* ContextResolutionResult as built at the start of resolve_with_timeout,
\* with the call's own position and arguments: enable_slow_path, whether the
\* wait_for timer has fired (deadline_passed), and, as history, the content of
\* the latest response handled for it before that (answered)
ContextResolutionResult(rid) ==
    [pc |-> "idle",
     request_id |-> rid,
     enable_slow_path |-> FALSE,
     deadline_passed |-> FALSE,
     answered |-> "none",
     atomic_context |-> FALSE,
     high_entropy_context |-> NoResult,
     slow_path_completed |-> FALSE,
     slow_path_timeout |-> FALSE,
     raised |-> FALSE]

BusInit ==
    /\ request = [r \in RequestIds |-> ContextResolutionResult(r)]
    /\ pending_requests = [r \in RequestIds |-> NoEntry]
    /\ results = [r \in RequestIds |-> NoResult]
    /\ published = {}
    /\ inbox = [l \in Listeners |-> <<>>]
    /\ deliveries = [r \in RequestIds |-> 0]
    /\ late_arrivals = {}
    /\ nresponses = 0

\* request_id = uuid4(): ids are fresh and interchangeable, so calls take
\* them in order
FreshRequestId(r) ==
    /\ request[r].pc = "idle"
    /\ \A q \in RequestIds : q < r => request[q].pc # "idle"

\* resolve_with_timeout with enable_slow_path = False: fast path only
ResolveFastOnly(r) ==
    /\ UNCHANGED <<memvars, driftvars, enginevars>>
    /\ FreshRequestId(r)
    /\ request' = [request EXCEPT ![r].pc = "done", ![r].atomic_context = TRUE]
    /\ UNCHANGED <<pending_requests, results, published, inbox, deliveries,
                   late_arrivals, nresponses>>

\* resolve_with_timeout up to the first await of _request_high_entropy_context:
\* the atomic context is resolved and the pending entry is stored
ResolveStart(r) ==
    /\ UNCHANGED <<memvars, driftvars, enginevars>>
    /\ FreshRequestId(r)
    /\ request' = [request EXCEPT ![r].pc = "publishing", ![r].atomic_context = TRUE,
                                   ![r].enable_slow_path = TRUE]
    /\ pending_requests' = [pending_requests EXCEPT ![r] = "unset"]
    /\ UNCHANGED <<results, published, inbox, deliveries, late_arrivals, nresponses>>

\* redis.publish succeeded; the coroutine now awaits event.wait()
Publish(r) ==
    /\ UNCHANGED <<memvars, driftvars, enginevars>>
    /\ request[r].pc = "publishing"
    /\ published' = published \cup {r}
    /\ request' = [request EXCEPT ![r].pc = "waiting"]
    /\ UNCHANGED <<pending_requests, results, inbox, deliveries, late_arrivals,
                   nresponses>>

\* variant: the cleanup is not in a finally block and is skipped
CleanupPendingSkipped(pend, r) == pend

\* the finally block of _request_high_entropy_context
CleanupPending(pend, r) == [pend EXCEPT ![r] = NoEntry]

\* get_redis() or redis.publish raised: the finally block runs and the
\* exception leaves resolve_with_timeout (only TimeoutError is caught there)
PublishFail(r) ==
    /\ UNCHANGED <<memvars, driftvars, enginevars>>
    /\ request[r].pc = "publishing"
    /\ pending_requests' = CleanupPending(pending_requests, r)
    /\ request' = [request EXCEPT ![r].pc = "failed", ![r].raised = TRUE]
    /\ UNCHANGED <<results, published, inbox, deliveries, late_arrivals, nresponses>>

\* the slow-path worker answers a published request; every subscribed
\* listener receives the message (pub/sub broadcast); it may answer twice
WorkerRespond(r, payload) ==
    /\ UNCHANGED <<memvars, driftvars, enginevars>>
    /\ r \in published
    /\ nresponses < MaxResponses
    /\ nresponses' = nresponses + 1
    /\ inbox' = [l \in Listeners |->
                    Append(inbox[l], [request_id |-> r, content |-> payload])]
    /\ UNCHANGED <<request, pending_requests, results, published, deliveries,
                   late_arrivals>>

\* variant: the stored context is built without the response's content
StoreResultWithoutContent(res, msg) ==
    [res EXCEPT ![msg.request_id] = EmptyHighEntropyContext(msg.request_id)]

\* variant: the result is kept in one slot, not under its request id
StoreResultInOneSlot(res, msg) ==
    [res EXCEPT ![1] = HighEntropyContext(msg.request_id, msg.content)]

\* handle_response: store the result, then set the event if one is pending
StoreResult(res, msg) ==
    [res EXCEPT ![msg.request_id] = HighEntropyContext(msg.request_id, msg.content)]

HandleResponse(l) ==
    /\ UNCHANGED <<memvars, driftvars, enginevars>>
    /\ inbox[l] # <<>>
    /\ LET msg == Head(inbox[l])
           rid == msg.request_id
       IN /\ results' = StoreResult(results, msg)
          /\ request' =
                IF pending_requests[rid] # NoEntry /\ ~request[rid].deadline_passed
                THEN [request EXCEPT ![rid].answered = msg.content]
                ELSE request
          /\ pending_requests' =
                IF pending_requests[rid] # NoEntry
                THEN [pending_requests EXCEPT ![rid] = "set"]
                ELSE pending_requests
          /\ late_arrivals' =
                IF pending_requests[rid] = NoEntry
                THEN late_arrivals \cup {rid}
                ELSE late_arrivals
    /\ inbox' = [inbox EXCEPT ![l] = Tail(inbox[l])]
    /\ UNCHANGED <<published, deliveries, nresponses>>

\* start_response_listener: json.loads or handle_response raised; the error
\* is logged and the message is lost
ListenerError(l) ==
    /\ UNCHANGED <<memvars, driftvars, enginevars>>
    /\ inbox[l] # <<>>
    /\ inbox' = [inbox EXCEPT ![l] = Tail(inbox[l])]
    /\ UNCHANGED <<request, pending_requests, results, published, deliveries,
                   late_arrivals, nresponses>>

\* variant: a stored result is handed over whenever one exists, also to a
\* request that has already returned
ResumeEnabledOnResult(r) ==
    /\ request[r].pc \in {"waiting", "done"}
    /\ results[r] # NoResult

\* which positions of the waiting coroutine the set event resumes
ResumeEnabled(r) ==
    /\ request[r].pc = "waiting"
    /\ pending_requests[r] = "set"
    /\ ~request[r].deadline_passed

\* variant: the success branch does not mark the slow path completed
CompletedResultUnmarked(res, high_entropy) ==
    [res EXCEPT !.pc = "done", !.high_entropy_context = high_entropy]

\* what the success branch of resolve_with_timeout leaves in the result
CompletedResult(res, high_entropy) ==
    [res EXCEPT !.pc = "done", !.high_entropy_context = high_entropy,
                !.slow_path_completed = TRUE]

\* event.wait() returned: pop the result, run the finally block, and
\* resolve_with_timeout marks the slow path completed
Resume(r) ==
    /\ UNCHANGED <<memvars, driftvars, enginevars>>
    /\ ResumeEnabled(r)
    /\ LET result == results[r]
       IN request' = [request EXCEPT ![r] = CompletedResult(request[r],
              IF result # NoResult THEN result ELSE EmptyHighEntropyContext(r))]
    /\ results' = [results EXCEPT ![r] = NoResult]
    /\ pending_requests' = CleanupPending(pending_requests, r)
    /\ deliveries' = [deliveries EXCEPT ![r] = @ + 1]
    /\ UNCHANGED <<published, inbox, late_arrivals, nresponses>>

\* variant: on timeout a result that is already stored is returned anyway
TimeoutResultUseStored(res, stored) ==
    [res EXCEPT !.pc = "done", !.slow_path_timeout = TRUE,
                !.high_entropy_context = stored]

\* what the except asyncio.TimeoutError branch leaves in the result
TimeoutResult(res, stored) ==
    [res EXCEPT !.pc = "done", !.slow_path_timeout = TRUE]

\* the timer of asyncio.wait_for fires. A coroutine whose event is already
\* set has its wake-up queued in the event loop ahead of the timer callback,
\* so the timer decides only for a request that is still unanswered
DeadlinePasses(r) ==
    /\ UNCHANGED <<memvars, driftvars, enginevars>>
    /\ request[r].pc \in {"publishing", "waiting"}
    /\ ~request[r].deadline_passed
    /\ pending_requests[r] # "set"
    /\ request' = [request EXCEPT ![r].deadline_passed = TRUE]
    /\ UNCHANGED <<pending_requests, results, published, inbox, deliveries,
                   late_arrivals, nresponses>>

\* asyncio.wait_for timed out: the inner coroutine is cancelled (its finally
\* block runs) wherever it is suspended, also when a response was handled
\* between the timer and the cancellation
Timeout(r) ==
    /\ UNCHANGED <<memvars, driftvars, enginevars>>
    /\ request[r].pc \in {"publishing", "waiting"}
    /\ request[r].deadline_passed
    /\ pending_requests' = CleanupPending(pending_requests, r)
    /\ request' = [request EXCEPT ![r] = TimeoutResult(request[r], results[r])]
    /\ UNCHANGED <<results, published, inbox, deliveries, late_arrivals, nresponses>>


\* ============================================================ context memory

CtxIds == 1..MaxContexts
Procs == 1..NumSessions
Keys == {"timezone"}
Values == {"a", "b"}
NoValue == "None"
NoConfidence == -1

\* confidence is held in thousandths: 1000 is 1.0
ConfidenceUnit == 1000
DEFAULT_CONFIDENCE == 500
CONFIRM_STEP == 200
CORRECTION_STEP == 200
CORRECTION_LIMIT == 3
DECAY_FACTOR_PCT == 95
MIN_CONFIDENCE == 100
StoreConfidences == {102, 900}
StoreTiers == {"short_term", "long_term"}
CachedTiers == {"short_term", "ephemeral"}
NoTier == "None"
RollbackVersions == 1..2

\* columns an UPDATE statement of the unit of work can carry; aged stands
\* for updated_at (is it older than CONTEXT_DECAY_HOURS)
Columns == {"value", "confidence", "source", "drift_status", "correction_count",
            "is_active", "aged"}

NoRow ==
    [exists |-> FALSE, key |-> "", memory_tier |-> "", value |-> NoValue,
     confidence |-> 0, source |-> "", drift_status |-> "", correction_count |-> 0,
     is_active |-> FALSE, aged |-> FALSE, expired |-> FALSE, applied |-> {}]

\* Context(...) as constructed by store, with the column defaults; applied
\* is a history column: the versioned writes whose changes reached the row;
\* expired stands for expires_at (set for the ephemeral tier only): has it
\* passed
NewContext(key, value, tier, confidence, source, op) ==
    [exists |-> TRUE, key |-> key, memory_tier |-> tier, value |-> value,
     confidence |-> confidence, source |-> source, drift_status |-> "stable",
     correction_count |-> 0, is_active |-> TRUE, aged |-> FALSE, expired |-> FALSE,
     applied |-> {op}]

\* ContextVersion(...) as constructed by _create_version; op stands for the
\* row's own primary key (two rows with equal columns are still two rows)
ContextVersion(cid, version, value, confidence, changed_by, previous_value, op) ==
    [context_id |-> cid, version |-> version, value |-> value,
     confidence |-> confidence, changed_by |-> changed_by,
     previous_value |-> previous_value, op |-> op]

NoWrite == [kind |-> "none", mask |-> {}, row |-> NoRow]

IdleSession ==
    [pc |-> "idle", kind |-> "", op |-> 0, cid |-> 0,
     value |-> NoValue, confidence |-> NoConfidence, source |-> "",
     key |-> "", memory_tier |-> "",
     obj |-> NoRow, loaded |-> NoRow,
     previous_value |-> NoValue, current_version |-> 0, to_version |-> 0,
     active_only |-> FALSE, include_expired |-> FALSE, found |-> {}, targets |-> {},
     wctx |-> [i \in CtxIds |-> NoWrite], wver |-> {}]

Max(a, b) == IF a >= b THEN a ELSE b
Min(a, b) == IF a <= b THEN a ELSE b

\* variant: the conflicting status is forced only above the threshold
record_correction_strict(obj) ==
    [obj EXCEPT
        !.correction_count = @ + 1,
        !.confidence = Max(0, @ - CORRECTION_STEP),
        !.drift_status =
            IF obj.correction_count + 1 > CORRECTION_LIMIT THEN "conflicting" ELSE @]

\* Context.record_correction
record_correction(obj) ==
    [obj EXCEPT
        !.correction_count = @ + 1,
        !.confidence = Max(0, @ - CORRECTION_STEP),
        !.drift_status =
            IF obj.correction_count + 1 >= CORRECTION_LIMIT THEN "conflicting" ELSE @]

\* Context.confirm
confirm(obj) ==
    [obj EXCEPT
        !.confidence = Min(ConfidenceUnit, @ + CONFIRM_STEP),
        !.drift_status = "stable"]

\* variant: the decayed confidence is not floored
DecayedConfidenceNoFloor(c) == (c * DECAY_FACTOR_PCT) \div 100

\* apply_decay: greatest(confidence * decay_factor, min_confidence)
DecayedConfidence(c) == Max((c * DECAY_FACTOR_PCT) \div 100, MIN_CONFIDENCE)

\* ---- the cache and the read results

\* an attribute that _dict_to_context leaves unset on the object it builds
Unset == -1

\* a Context object as a query returns it; expires_at is None outside the
\* ephemeral tier
ContextObject(i, row) ==
    [id |-> i, key |-> row.key, memory_tier |-> row.memory_tier, value |-> row.value,
     confidence |-> row.confidence, source |-> row.source,
     drift_status |-> row.drift_status, is_active |-> row.is_active,
     correction_count |-> row.correction_count,
     expires_at |-> IF row.memory_tier # "ephemeral" THEN "None"
                    ELSE IF row.expired THEN "past" ELSE "future"]

\* _context_to_dict: the attributes that go into the cache
context_to_dict(context) ==
    [id |-> context.id, key |-> context.key, memory_tier |-> context.memory_tier,
     value |-> context.value, confidence |-> context.confidence,
     source |-> context.source, drift_status |-> context.drift_status,
     is_active |-> context.is_active]

\* _dict_to_context: Context.__new__ and the attributes the dict holds
dict_to_context(data) ==
    [id |-> data.id, key |-> data.key, memory_tier |-> data.memory_tier,
     value |-> data.value, confidence |-> data.confidence, source |-> data.source,
     drift_status |-> data.drift_status, is_active |-> data.is_active,
     correction_count |-> Unset, expires_at |-> "unset"]

NoDict == context_to_dict(ContextObject(0, NoRow))

\* context_cache.get gives None for a missing key
NoCached == [present |-> FALSE, list |-> {}]

EmptyCache == [user_all |-> NoCached, ctx |-> [i \in CtxIds |-> NoDict]]

\* _invalidate_cache: delete user:{user_id}:all
invalidate_cache(c) == [c EXCEPT !.user_all = NoCached]

\* _cache_context: set context:{id}, then _invalidate_cache
cache_context(c, i, obj) ==
    invalidate_cache([c EXCEPT !.ctx[i] = context_to_dict(ContextObject(i, obj))])

\* the WHERE clause of get_user_context (one user, one context type)
Query(table, memory_tier, active_only, include_expired) ==
    {i \in CtxIds :
        /\ table[i].exists
        /\ memory_tier # NoTier => table[i].memory_tier = memory_tier
        /\ active_only => table[i].is_active
        /\ ~include_expired => ~table[i].expired}

\* the list the SELECT of get_user_context returns on a table
StoreAnswer(table, memory_tier, active_only, include_expired) ==
    {ContextObject(i, table[i]) :
        i \in Query(table, memory_tier, active_only, include_expired)}

\* the rows whose expires_at has passed
ExpiredIds(table) == {i \in CtxIds : table[i].exists /\ table[i].expired}

NoRead ==
    [kind |-> "none", from_cache |-> FALSE, memory_tier |-> NoTier,
     active_only |-> FALSE, include_expired |-> FALSE, rows |-> {},
     expired_ids |-> {}]

\* what a read call returned: rows, and as history where they came from,
\* the call's filters and the rows that were expired when they were fetched
Read(kind, from_cache, memory_tier, active_only, include_expired, rows, expired_ids) ==
    [kind |-> kind, from_cache |-> from_cache, memory_tier |-> memory_tier,
     active_only |-> active_only, include_expired |-> include_expired,
     rows |-> rows, expired_ids |-> expired_ids]

\* the database after store(a) and two record_correction calls, committed:
\* the starting point of the runs that begin with a corrected record
SeedRow ==
    [NewContext("timezone", "a", "short_term", DEFAULT_CONFIDENCE, "system", -1)
        EXCEPT !.correction_count = 2, !.value = "b",
               !.applied = {-1, -2, -3}]

SeedVersions ==
    {ContextVersion(1, 1, "a", 900, "system", NoValue, -1),
     ContextVersion(1, 2, "b", 700, "user", "a", -2),
     ContextVersion(1, 3, "b", 500, "user", "b", -3)}

MemInit ==
    /\ \/ /\ db_contexts = [i \in CtxIds |-> NoRow]
          /\ db_versions = {}
          /\ next_id = 1
       \/ /\ db_contexts = [i \in CtxIds |-> IF i = 1 THEN SeedRow ELSE NoRow]
          /\ db_versions = SeedVersions
          /\ next_id = 2
    /\ sessions = [p \in Procs |-> IdleSession]
    /\ opseq = 0
    /\ cache = EmptyCache
    /\ last_read = NoRead
    /\ nreads = 0
    /\ db_history = {db_contexts}

\* a row with the columns of an UPDATE laid over it
Overlay(row, w) ==
    [row EXCEPT
        !.value = IF "value" \in w.mask THEN w.row.value ELSE @,
        !.confidence = IF "confidence" \in w.mask THEN w.row.confidence ELSE @,
        !.source = IF "source" \in w.mask THEN w.row.source ELSE @,
        !.drift_status = IF "drift_status" \in w.mask THEN w.row.drift_status ELSE @,
        !.correction_count =
            IF "correction_count" \in w.mask THEN w.row.correction_count ELSE @,
        !.is_active = IF "is_active" \in w.mask THEN w.row.is_active ELSE @,
        !.aged = IF "aged" \in w.mask THEN w.row.aged ELSE @,
        !.applied = @ \cup w.row.applied]

\* a row after an INSERT, UPDATE or DELETE statement
ApplyWrite(row, w) ==
    CASE w.kind = "none" -> row
      [] w.kind = "insert" -> w.row
      [] w.kind = "update" -> IF row.exists THEN Overlay(row, w) ELSE NoRow
      [] w.kind = "delete" -> NoRow

\* the row a statement of session s sees: committed data plus s's own work
VisibleRow(s, i) == ApplyWrite(db_contexts[i], s.wctx[i])

VisibleVersions(s) ==
    {v \in db_versions \cup s.wver : s.wctx[v.context_id].kind # "delete"}

\* the row is written by another open transaction (its row lock is held)
Locked(p, i) == \E q \in Procs \ {p} : sessions[q].wctx[i].kind # "none"

\* the columns the unit of work puts in the UPDATE for a changed object;
\* updated_at is always among them (set by update, or by onupdate)
DirtyColumns(obj, loaded) ==
    {c \in Columns \ {"aged"} : obj[c] # loaded[c]} \cup {"aged"}

SetMax(S) == IF S = {} THEN 0 ELSE CHOOSE x \in S : \A y \in S : y <= x

\* _get_latest_version_number
LatestVersionNumber(s, cid) ==
    SetMax({v.version : v \in {w \in VisibleVersions(s) : w.context_id = cid}})

\* _get_by_key: the active rows with that key (one user, one context type)
RowsByKey(s, key) ==
    {i \in CtxIds : LET r == VisibleRow(s, i)
                    IN r.exists /\ r.is_active /\ r.key = key}

\* variant: the session runs in autocommit, every flush is visible at once
FlushContextAutocommit(s, i, w, table) ==
    [session |-> s, table |-> [table EXCEPT ![i] = ApplyWrite(@, w)]]

\* db.flush() of a Context statement: it stays inside the session's
\* transaction (autocommit=False) and the committed table is untouched
FlushContext(s, i, w, table) ==
    [session |-> [s EXCEPT !.wctx[i] = w], table |-> table]

\* get_db: commit at the end of the request
CommitContexts(s) == [i \in CtxIds |-> ApplyWrite(db_contexts[i], s.wctx[i])]

\* version rows go with their context (ON DELETE CASCADE)
CommitVersions(s) ==
    {v \in db_versions \cup s.wver : CommitContexts(s)[v.context_id].exists}

Commit(p) ==
    /\ UNCHANGED <<busvars, driftvars, enginevars>>
    /\ UNCHANGED <<cache, last_read, nreads>>
    /\ sessions[p].pc = "commit"
    /\ db_contexts' = CommitContexts(sessions[p])
    /\ db_versions' = CommitVersions(sessions[p])
    /\ db_history' = db_history \cup {db_contexts'}
    /\ sessions' = [sessions EXCEPT ![p] = IdleSession]
    /\ UNCHANGED <<next_id, opseq>>

\* get_db: an exception anywhere in the request rolls the transaction back
Fail(p) ==
    /\ UNCHANGED <<busvars, driftvars, enginevars>>
    /\ UNCHANGED readvars
    /\ sessions[p].pc # "idle"
    /\ sessions' = [sessions EXCEPT ![p] = IdleSession]
    /\ UNCHANGED <<db_contexts, db_versions, next_id, opseq>>

\* a service call starts in a fresh session; sessions are interchangeable,
\* so the call takes the first one that is free
CanStart(p) ==
    /\ sessions[p].pc = "idle"
    /\ \A q \in Procs : q < p => sessions[q].pc # "idle"
    /\ opseq < MaxOps

NewSession(kind) == [IdleSession EXCEPT !.op = opseq + 1, !.kind = kind]

\* ---- store

\* store: _get_by_key; an existing active row sends the call into update,
\* several of them make scalar_one_or_none raise
StoreLookup(p, key, value, tier, confidence) ==
    /\ UNCHANGED <<busvars, driftvars, enginevars>>
    /\ UNCHANGED readvars
    /\ CanStart(p)
    /\ opseq' = opseq + 1
    /\ LET s == [NewSession("store") EXCEPT
                     !.key = key, !.value = value, !.memory_tier = tier,
                     !.confidence = confidence, !.source = "system"]
           existing == RowsByKey(s, key)
       IN sessions' = [sessions EXCEPT ![p] =
            IF existing = {} THEN [s EXCEPT !.pc = "s_insert"]
            ELSE IF Cardinality(existing) > 1 THEN IdleSession
            ELSE LET i == CHOOSE i \in existing : TRUE
                 IN [s EXCEPT !.pc = "u_getmax", !.cid = i,
                              !.obj = VisibleRow(s, i), !.loaded = VisibleRow(s, i)]]
    /\ UNCHANGED <<db_contexts, db_versions, next_id>>

\* store: insert the new Context and its version 1, then _cache_context
StoreInsert(p) ==
    /\ UNCHANGED <<busvars, driftvars, enginevars>>
    /\ UNCHANGED <<last_read, nreads, db_history>>
    /\ sessions[p].pc = "s_insert"
    /\ next_id <= MaxContexts
    /\ next_id' = next_id + 1
    /\ LET s == sessions[p]
           row == NewContext(s.key, s.value, s.memory_tier, s.confidence, s.source, s.op)
           f == FlushContext(s, next_id,
                    [kind |-> "insert", mask |-> Columns, row |-> row], db_contexts)
       IN /\ sessions' = [sessions EXCEPT ![p] =
                [f.session EXCEPT !.pc = "commit", !.cid = next_id, !.obj = row,
                    !.wver = @ \cup {ContextVersion(next_id, 1, s.value,
                                        s.confidence, s.source, NoValue, s.op)}]]
          /\ db_contexts' = f.table
          /\ cache' = cache_context(cache, next_id, row)
    /\ UNCHANGED <<db_versions, opseq>>

\* ---- update

\* update: get_by_id (a soft-deleted row is found too); no row raises
UpdateLoad(p, cid, value, confidence) ==
    /\ UNCHANGED <<busvars, driftvars, enginevars>>
    /\ UNCHANGED readvars
    /\ CanStart(p)
    /\ opseq' = opseq + 1
    /\ LET s == [NewSession("update") EXCEPT !.cid = cid,
                     !.value = value, !.confidence = confidence, !.source = "system"]
           row == VisibleRow(s, cid)
       IN sessions' = [sessions EXCEPT ![p] =
            IF row.exists
            THEN [s EXCEPT !.pc = "u_getmax", !.obj = row, !.loaded = row]
            ELSE IdleSession]
    /\ UNCHANGED <<db_contexts, db_versions, next_id>>

\* update: previous_value and _get_latest_version_number
UpdateGetMax(p) ==
    /\ UNCHANGED <<busvars, driftvars, enginevars>>
    /\ UNCHANGED readvars
    /\ sessions[p].pc = "u_getmax"
    /\ LET s == sessions[p]
       IN sessions' = [sessions EXCEPT ![p] =
            [s EXCEPT !.pc = "u_flush",
                      !.previous_value = s.obj.value,
                      !.current_version = LatestVersionNumber(s, s.cid)]]
    /\ UNCHANGED <<db_contexts, db_versions, next_id, opseq>>

\* variant: a confidence that was not given falls back to the column default
ApplyUpdateDefaultConfidence(obj, value, confidence, source, op) ==
    [obj EXCEPT
        !.value = IF value # NoValue THEN value ELSE @,
        !.confidence = IF confidence # NoConfidence THEN confidence
                       ELSE DEFAULT_CONFIDENCE,
        !.source = source,
        !.aged = FALSE,
        !.applied = {op}]

\* update: the attribute assignments
ApplyUpdate(obj, value, confidence, source, op) ==
    [obj EXCEPT
        !.value = IF value # NoValue THEN value ELSE @,
        !.confidence = IF confidence # NoConfidence THEN confidence ELSE @,
        !.source = source,
        !.aged = FALSE,
        !.applied = {op}]

\* flush of the UPDATE for a changed object: it waits while another
\* transaction holds the row, and raises when the row is gone
FlushObject(p, obj, next_pc) ==
    /\ ~Locked(p, sessions[p].cid)
    /\ LET s == sessions[p]
           w == [kind |-> "update", mask |-> DirtyColumns(obj, s.loaded), row |-> obj]
           f == FlushContext(s, s.cid, w, db_contexts)
       IN IF db_contexts[s.cid].exists
          THEN /\ sessions' = [sessions EXCEPT ![p] =
                    [f.session EXCEPT !.pc = next_pc, !.obj = obj]]
               /\ db_contexts' = f.table
          ELSE /\ sessions' = [sessions EXCEPT ![p] = IdleSession]
               /\ UNCHANGED db_contexts

\* update: apply the changes and flush
UpdateFlush(p) ==
    /\ UNCHANGED <<busvars, driftvars, enginevars>>
    /\ UNCHANGED readvars
    /\ sessions[p].pc = "u_flush"
    /\ LET s == sessions[p]
       IN FlushObject(p, ApplyUpdate(s.obj, s.value, s.confidence, s.source, s.op),
                      "u_version")
    /\ UNCHANGED <<db_versions, next_id, opseq>>

\* update: _create_version(current_version + 1), then _cache_context
UpdateVersion(p) ==
    /\ UNCHANGED <<busvars, driftvars, enginevars>>
    /\ UNCHANGED <<last_read, nreads, db_history>>
    /\ cache' = cache_context(cache, sessions[p].cid, sessions[p].obj)
    /\ sessions[p].pc = "u_version"
    /\ LET s == sessions[p]
       IN sessions' = [sessions EXCEPT ![p] =
            [s EXCEPT !.pc = "commit",
                      !.wver = @ \cup {ContextVersion(s.cid, s.current_version + 1,
                                          s.obj.value, s.obj.confidence, s.source,
                                          s.previous_value, s.op)}]]
    /\ UNCHANGED <<db_contexts, db_versions, next_id, opseq>>

\* ---- record_correction

\* record_correction: get_by_id; no row raises
CorrectionLoad(p, cid, new_value) ==
    /\ UNCHANGED <<busvars, driftvars, enginevars>>
    /\ UNCHANGED readvars
    /\ CanStart(p)
    /\ opseq' = opseq + 1
    /\ LET s == [NewSession("correction") EXCEPT !.cid = cid, !.value = new_value,
                     !.source = "user"]
           row == VisibleRow(s, cid)
       IN sessions' = [sessions EXCEPT ![p] =
            IF row.exists
            THEN [s EXCEPT !.pc = "rc_flush", !.obj = row, !.loaded = row,
                           !.previous_value = row.value]
            ELSE IdleSession]
    /\ UNCHANGED <<db_contexts, db_versions, next_id>>

\* record_correction: set the value, Context.record_correction(), flush
CorrectionFlush(p) ==
    /\ UNCHANGED <<busvars, driftvars, enginevars>>
    /\ UNCHANGED readvars
    /\ sessions[p].pc = "rc_flush"
    /\ LET s == sessions[p]
           obj == record_correction([s.obj EXCEPT !.value = s.value])
       IN FlushObject(p, [obj EXCEPT !.aged = FALSE, !.applied = {s.op}], "rc_version")
    /\ UNCHANGED <<db_versions, next_id, opseq>>

\* record_correction: _get_latest_version_number, _create_version, then
\* _cache_context
CorrectionVersion(p) ==
    /\ UNCHANGED <<busvars, driftvars, enginevars>>
    /\ UNCHANGED <<last_read, nreads, db_history>>
    /\ cache' = cache_context(cache, sessions[p].cid, sessions[p].obj)
    /\ sessions[p].pc = "rc_version"
    /\ LET s == sessions[p]
           current_version == LatestVersionNumber(s, s.cid)
       IN sessions' = [sessions EXCEPT ![p] =
            [s EXCEPT !.pc = "commit", !.current_version = current_version,
                      !.wver = @ \cup {ContextVersion(s.cid, current_version + 1,
                                          s.value, s.obj.confidence, s.source,
                                          s.previous_value, s.op)}]]
    /\ UNCHANGED <<db_contexts, db_versions, next_id, opseq>>

\* ---- confirm

ConfirmLoad(p, cid) ==
    /\ UNCHANGED <<busvars, driftvars, enginevars>>
    /\ UNCHANGED readvars
    /\ CanStart(p)
    /\ opseq' = opseq + 1
    /\ LET s == [NewSession("confirm") EXCEPT !.cid = cid]
           row == VisibleRow(s, cid)
       IN sessions' = [sessions EXCEPT ![p] =
            IF row.exists
            THEN [s EXCEPT !.pc = "c_flush", !.obj = row, !.loaded = row]
            ELSE IdleSession]
    /\ UNCHANGED <<db_contexts, db_versions, next_id>>

\* confirm: Context.confirm(), flush, then _cache_context
ConfirmFlush(p) ==
    /\ UNCHANGED <<busvars, driftvars, enginevars>>
    /\ UNCHANGED <<last_read, nreads, db_history>>
    /\ sessions[p].pc = "c_flush"
    /\ LET obj == confirm(sessions[p].obj)
       IN /\ FlushObject(p, [obj EXCEPT !.aged = FALSE, !.applied = {}], "commit")
          /\ cache' = IF db_contexts[sessions[p].cid].exists
                      THEN cache_context(cache, sessions[p].cid,
                                         [obj EXCEPT !.aged = FALSE, !.applied = {}])
                      ELSE cache
    /\ UNCHANGED <<db_versions, next_id, opseq>>

\* ---- rollback

\* rollback: select the target version (none or several raise), then update
\* with its value and confidence: get_by_id
RollbackLoad(p, cid, to_version) ==
    /\ UNCHANGED <<busvars, driftvars, enginevars>>
    /\ UNCHANGED readvars
    /\ CanStart(p)
    /\ opseq' = opseq + 1
    /\ LET s == [NewSession("rollback") EXCEPT !.cid = cid, !.source = "user"]
           targets == {v \in VisibleVersions(s) :
                          v.context_id = cid /\ v.version = to_version}
           row == VisibleRow(s, cid)
       IN sessions' = [sessions EXCEPT ![p] =
            IF Cardinality(targets) = 1 /\ row.exists
            THEN LET target_version == CHOOSE v \in targets : TRUE
                 IN [s EXCEPT !.pc = "u_getmax", !.obj = row, !.loaded = row,
                              !.to_version = to_version,
                              !.value = target_version.value,
                              !.confidence = target_version.confidence]
            ELSE IdleSession]
    /\ UNCHANGED <<db_contexts, db_versions, next_id>>

\* ---- apply_decay

\* the rows the WHERE clause of apply_decay selects
DecayTargets(s) ==
    {i \in CtxIds : LET r == VisibleRow(s, i)
                    IN /\ r.exists
                       /\ r.is_active
                       /\ r.aged
                       /\ r.confidence > MIN_CONFIDENCE
                       /\ r.memory_tier # "long_term"}

\* apply_decay: one UPDATE over the selected rows (onupdate renews updated_at)
ApplyDecay(p) ==
    /\ UNCHANGED <<busvars, driftvars, enginevars>>
    /\ UNCHANGED readvars
    /\ CanStart(p)
    /\ opseq' = opseq + 1
    /\ LET s == NewSession("decay")
           targets == DecayTargets(s)
       IN /\ \A i \in targets : ~Locked(p, i)
          /\ sessions' = [sessions EXCEPT ![p] =
                [s EXCEPT !.pc = "commit",
                    !.wctx = [i \in CtxIds |->
                        IF i \in targets
                        THEN [kind |-> "update",
                              mask |-> {"confidence", "drift_status", "aged"},
                              row |-> [db_contexts[i] EXCEPT
                                          !.confidence = DecayedConfidence(@),
                                          !.drift_status = "stale",
                                          !.aged = FALSE,
                                          !.applied = {}]]
                        ELSE NoWrite]]]
    /\ UNCHANGED <<db_contexts, db_versions, next_id>>

\* ---- delete

\* delete: get_by_id after the statement finds the row only when it was not
\* hard deleted, and the user's list is invalidated only then
DeleteCacheEffect(c, row, soft_delete) ==
    IF row.exists /\ soft_delete THEN invalidate_cache(c) ELSE c

\* delete: one UPDATE (soft) or DELETE (hard) by id; no row is not an error
Delete(p, cid, soft_delete) ==
    /\ UNCHANGED <<busvars, driftvars, enginevars>>
    /\ UNCHANGED <<last_read, nreads, db_history>>
    /\ CanStart(p)
    /\ opseq' = opseq + 1
    /\ ~Locked(p, cid)
    /\ LET s == [NewSession("delete") EXCEPT !.cid = cid]
           row == db_contexts[cid]
           w == IF soft_delete
                THEN [kind |-> "update", mask |-> {"is_active", "aged"},
                      row |-> [row EXCEPT !.is_active = FALSE, !.aged = FALSE,
                                          !.applied = {}]]
                ELSE [kind |-> "delete", mask |-> {}, row |-> NoRow]
       IN /\ sessions' = [sessions EXCEPT ![p] =
                IF row.exists THEN [s EXCEPT !.pc = "commit", !.wctx[cid] = w]
                ELSE [s EXCEPT !.pc = "commit"]]
          /\ cache' = DeleteCacheEffect(cache, row, soft_delete)
    /\ UNCHANGED <<db_contexts, db_versions, next_id>>

\* ---- time

\* CONTEXT_DECAY_HOURS go by with no request in flight: every row's
\* updated_at is now older than the decay threshold, every ephemeral row's
\* expires_at (EPHEMERAL_CONTEXT_TTL_SECONDS) has passed and Redis has
\* dropped every cache entry (ttl 60 and 300 seconds)
TimePasses ==
    /\ UNCHANGED <<busvars, driftvars, enginevars>>
    /\ UNCHANGED <<last_read, nreads>>
    /\ cache' = EmptyCache
    /\ \A p \in Procs : sessions[p].pc = "idle"
    /\ \E i \in CtxIds : db_contexts[i].exists /\ ~db_contexts[i].aged
    /\ db_contexts' = [i \in CtxIds |->
            IF db_contexts[i].exists
            THEN [db_contexts[i] EXCEPT
                     !.aged = TRUE,
                     !.expired = (db_contexts[i].memory_tier = "ephemeral")]
            ELSE NoRow]
    /\ db_history' = db_history \cup {db_contexts'}
    /\ UNCHANGED <<db_versions, sessions, next_id, opseq>>

\* the ttl of the ephemeral rows runs out (the cache entries, written less
\* than their own ttl ago, are still there)
ExpiryPasses ==
    /\ UNCHANGED <<busvars, driftvars, enginevars>>
    /\ \E i \in CtxIds : /\ db_contexts[i].exists
                         /\ db_contexts[i].memory_tier = "ephemeral"
                         /\ ~db_contexts[i].expired
    /\ db_contexts' = [i \in CtxIds |->
            IF db_contexts[i].exists /\ db_contexts[i].memory_tier = "ephemeral"
            THEN [db_contexts[i] EXCEPT !.expired = TRUE]
            ELSE db_contexts[i]]
    /\ db_history' = db_history \cup {db_contexts'}
    /\ UNCHANGED <<db_versions, sessions, next_id, opseq, cache, last_read, nreads>>

\* Redis drops user:{user_id}:all when its ttl of 60 seconds is over
CacheExpires ==
    /\ UNCHANGED <<busvars, driftvars, enginevars>>
    /\ cache.user_all.present
    /\ cache' = invalidate_cache(cache)
    /\ UNCHANGED <<db_contexts, db_versions, sessions, next_id, opseq,
                   last_read, nreads, db_history>>

\* ---- reads

\* a read call starts in a fresh session, as a writing call does
CanRead(p) ==
    /\ sessions[p].pc = "idle"
    /\ \A q \in Procs : q < p => sessions[q].pc # "idle"
    /\ nreads < MaxReads

\* get_user_context: context_cache.get; a cached list that is not empty
\* is returned when no type or tier filter is given, whatever active_only
\* and include_expired are; otherwise the SELECT
GetUserContext(p, memory_tier, active_only, include_expired) ==
    /\ UNCHANGED <<busvars, driftvars, enginevars>>
    /\ CanRead(p)
    /\ nreads' = nreads + 1
    /\ LET cached == cache.user_all
       IN IF cached.present /\ cached.list # {} /\ memory_tier = NoTier
          THEN /\ last_read' = Read("user", TRUE, memory_tier, active_only,
                                    include_expired,
                                    {dict_to_context(c) : c \in cached.list},
                                    ExpiredIds(db_contexts))
               /\ UNCHANGED sessions
          ELSE /\ sessions' = [sessions EXCEPT ![p] =
                    [IdleSession EXCEPT
                        !.pc = "g_set", !.kind = "get",
                        !.memory_tier = memory_tier,
                        !.active_only = active_only,
                        !.include_expired = include_expired,
                        !.found = StoreAnswer(db_contexts, memory_tier,
                                              active_only, include_expired),
                        !.targets = ExpiredIds(db_contexts)]]
               /\ UNCHANGED last_read
    /\ UNCHANGED <<db_contexts, db_versions, next_id, opseq, cache, db_history>>

\* get_user_context: context_cache.set of the list when no type or tier
\* filter was given, and return
GetCacheSet(p) ==
    /\ UNCHANGED <<busvars, driftvars, enginevars>>
    /\ sessions[p].pc = "g_set"
    /\ LET s == sessions[p]
       IN /\ cache' = IF s.memory_tier = NoTier
                      THEN [cache EXCEPT !.user_all =
                              [present |-> TRUE,
                               list |-> {context_to_dict(c) : c \in s.found}]]
                      ELSE cache
          /\ last_read' = Read("user", FALSE, s.memory_tier, s.active_only,
                               s.include_expired, s.found, s.targets)
    /\ sessions' = [sessions EXCEPT ![p] = IdleSession]
    /\ UNCHANGED <<db_contexts, db_versions, next_id, opseq, nreads, db_history>>

\* get_by_id: SELECT by the primary key alone
GetById(p, cid) ==
    /\ UNCHANGED <<busvars, driftvars, enginevars>>
    /\ CanRead(p)
    /\ nreads' = nreads + 1
    /\ last_read' = Read("by_id", FALSE, NoTier, FALSE, FALSE,
                         IF db_contexts[cid].exists
                         THEN {ContextObject(cid, db_contexts[cid])} ELSE {},
                         ExpiredIds(db_contexts))
    /\ UNCHANGED <<db_contexts, db_versions, sessions, next_id, opseq, cache,
                   db_history>>

\* ---- cleanup_expired

\* the rows the WHERE clause of cleanup_expired selects
CleanupTargets(s) ==
    {i \in CtxIds : LET r == VisibleRow(s, i)
                    IN r.exists /\ r.memory_tier = "ephemeral" /\ r.expired}

\* cleanup_expired: one DELETE over the selected rows
CleanupExpired(p) ==
    /\ UNCHANGED <<busvars, driftvars, enginevars>>
    /\ UNCHANGED readvars
    /\ CanStart(p)
    /\ opseq' = opseq + 1
    /\ LET s == NewSession("cleanup")
           targets == CleanupTargets(s)
       IN /\ \A i \in targets : ~Locked(p, i)
          /\ sessions' = [sessions EXCEPT ![p] =
                [s EXCEPT !.pc = "commit", !.targets = targets,
                    !.wctx = [i \in CtxIds |->
                        IF i \in targets
                        THEN [kind |-> "delete", mask |-> {}, row |-> NoRow]
                        ELSE NoWrite]]]
    /\ UNCHANGED <<db_contexts, db_versions, next_id>>

\* ============================================================ drift detector
\* Context objects in memory, as the unit tests and the API handlers hold
\* them, with the Context methods and the DriftDetector applied to them.

RecIds == 1..MaxRecords
Timezones == {"a", "b"}

\* ---- IEEE 754 binary64 values in [0, 2), exactly: a value is
\* (hi * 2^28 + lo) * 2^-56, two limbs of 28 bits (a negative value has
\* both limbs negated)
Limb == 268435456

Double(hi, lo) == [hi |-> hi, lo |-> lo]

\* the literals of the program, as the doubles Python parses them to
FLOAT_0_0 == Double(0, 0)
FLOAT_0_1 == Double(26843545, 161061274)
FLOAT_0_2 == Double(53687091, 53687092)
FLOAT_0_3 == Double(80530636, 214748364)
FLOAT_0_4 == Double(107374182, 107374184)
FLOAT_0_5 == Double(134217728, 0)
FLOAT_0_9 == Double(241591910, 107374184)
FLOAT_1_0 == Double(Limb, 0)

FloatLess(a, b) == a.hi < b.hi \/ (a.hi = b.hi /\ a.lo < b.lo)
FloatMax(a, b) == IF FloatLess(a, b) THEN b ELSE a
FloatMin(a, b) == IF FloatLess(b, a) THEN b ELSE a

\* spacing of the doubles around a value, in units of 2^-56
Quantum(hi) ==
    IF hi >= Limb THEN 16
    ELSE IF hi >= Limb \div 2 THEN 8
    ELSE IF hi >= Limb \div 4 THEN 4
    ELSE IF hi >= Limb \div 8 THEN 2
    ELSE 1

\* round-to-nearest, ties-to-even, of the exact value (hi, lo) >= 0
RoundToDouble(hi, lo) ==
    LET q == Quantum(hi)
        r == lo % q
        down == lo - r
        up == (2 * r > q) \/ (2 * r = q /\ (down \div q) % 2 = 1)
        lo2 == IF up THEN down + q ELSE down
    IN IF lo2 >= Limb THEN Double(hi + 1, lo2 - Limb) ELSE Double(hi, lo2)

\* the exact difference a - b for a >= b
ExactDifference(a, b) ==
    IF a.lo >= b.lo THEN Double(a.hi - b.hi, a.lo - b.lo)
    ELSE Double(a.hi - b.hi - 1, a.lo + Limb - b.lo)

\* variant: the difference is kept exact, not rounded to a double
FloatSubUnrounded(a, b) ==
    IF FloatLess(a, b)
    THEN LET d == ExactDifference(b, a) IN Double(-d.hi, -d.lo)
    ELSE ExactDifference(a, b)

\* a - b in double arithmetic
FloatSub(a, b) ==
    IF FloatLess(a, b)
    THEN LET d == ExactDifference(b, a)
             m == RoundToDouble(d.hi, d.lo)
         IN Double(-m.hi, -m.lo)
    ELSE LET d == ExactDifference(a, b) IN RoundToDouble(d.hi, d.lo)

\* a + b in double arithmetic
FloatAdd(a, b) ==
    LET lo == a.lo + b.lo
        hi == a.hi + b.hi
    IN IF lo >= Limb THEN RoundToDouble(hi + 1, lo - Limb)
       ELSE RoundToDouble(hi, lo)

\* a confidence in thousandths (rounded down), for the fixed-point figures
\* of the report
Milli(c) == ((c.hi \div 1024) * 1000) \div 262144

\* ---- Context objects

NoContext ==
    [exists |-> FALSE, memory_tier |-> "", value |-> "", confidence |-> FLOAT_0_0,
     correction_count |-> 0, drift_status |-> "", age_hours |-> 0,
     initial_confidence |-> FLOAT_0_0, log |-> <<>>]

\* Context(...) with the column defaults; age_hours is now - updated_at.
\* History: the confidence it was built with and the calls made on it since
NewObject(tier, value, confidence, age_hours) ==
    [exists |-> TRUE, memory_tier |-> tier, value |-> value,
     confidence |-> confidence, correction_count |-> 0,
     drift_status |-> "stable", age_hours |-> age_hours,
     initial_confidence |-> confidence, log |-> <<>>]

\* variant: the second correction already forces the status
Context_record_correction_early(obj) ==
    [obj EXCEPT
        !.correction_count = @ + 1,
        !.confidence = FloatMax(FLOAT_0_0, FloatSub(@, FLOAT_0_2)),
        !.drift_status =
            IF obj.correction_count + 1 >= CORRECTION_LIMIT - 1 THEN "conflicting" ELSE @]

\* Context.record_correction, on doubles
Context_record_correction(obj) ==
    [obj EXCEPT
        !.correction_count = @ + 1,
        !.confidence = FloatMax(FLOAT_0_0, FloatSub(@, FLOAT_0_2)),
        !.drift_status =
            IF obj.correction_count + 1 >= CORRECTION_LIMIT THEN "conflicting" ELSE @]

\* Context.confirm, on doubles
Context_confirm(obj) ==
    [obj EXCEPT
        !.confidence = FloatMin(FLOAT_1_0, FloatAdd(@, FLOAT_0_2)),
        !.drift_status = "stable"]

\* ---- DriftDetector

STALENESS_HOURS == 24
CRITICAL_STALENESS_HOURS == 72
CORRECTION_THRESHOLD == 3

\* severities are held in 1/5040: the age and correction severities of
\* whole hours and counts are exact in this unit
SeverityUnit == 5040
SEVERITY_0_5 == 2520
SEVERITY_0_7 == 3528
SEVERITY_0_8 == 4032

\* overall_health is held in 1/504000
HealthUnit == 504000
HEALTH_0_7 == 352800

DriftSignal(drift_type, context_id, check, severity, recommended_action) ==
    [drift_type |-> drift_type, context_id |-> context_id, check |-> check,
     severity |-> severity, recommended_action |-> recommended_action]

\* _check_staleness: no signal, or one signal
check_staleness(i, context) ==
    LET staleness_hours ==
            IF context.memory_tier = "long_term" THEN CRITICAL_STALENESS_HOURS * 7
            ELSE STALENESS_HOURS
        severity ==
            Min(SeverityUnit,
                ((context.age_hours - staleness_hours) * SeverityUnit)
                    \div staleness_hours)
    IN IF context.age_hours < staleness_hours THEN <<>>
       ELSE <<DriftSignal("staleness", i, "age", severity,
                  IF severity > SEVERITY_0_5 THEN "refresh" ELSE "monitor")>>

\* _check_corrections
check_corrections(i, context) ==
    IF context.correction_count < CORRECTION_THRESHOLD THEN <<>>
    ELSE <<DriftSignal("correction_pattern", i, "corrections",
               Min(SeverityUnit,
                   (context.correction_count * SeverityUnit)
                       \div (CORRECTION_THRESHOLD * 2)),
               "confirm_with_user")>>

\* _check_confidence flagging below the critical threshold only
check_confidence_critical_only(i, context) ==
    IF ~FloatLess(context.confidence, FLOAT_0_2) THEN <<>>
    ELSE <<DriftSignal("staleness", i, "confidence",
               SeverityUnit - (Milli(context.confidence) * SeverityUnit) \div 400,
               "refresh")>>

\* _check_confidence: the signal's type is STALENESS; its severity
\* 1 - confidence / 0.4 is taken from the confidence in thousandths
check_confidence(i, context) ==
    IF ~FloatLess(context.confidence, FLOAT_0_4) THEN <<>>
    ELSE <<DriftSignal("staleness", i, "confidence",
               SeverityUnit - (Milli(context.confidence) * SeverityUnit) \div 400,
               IF FloatLess(context.confidence, FLOAT_0_2) THEN "refresh"
               ELSE "monitor")>>

\* check_single, and the body of the loop of detect
check_single(i, context) ==
    check_staleness(i, context) \o check_corrections(i, context)
        \o check_confidence(i, context)

\* _check_conflicts: all contexts here are temporal with key "timezone"
check_conflicts(ids, ctxs) ==
    IF Len(ids) > 1 /\ Cardinality({ctxs[ids[n]].value : n \in 1..Len(ids)}) > 1
    THEN <<DriftSignal("conflict", ids[1], "conflicts", SEVERITY_0_8,
               "resolve_conflict")>>
    ELSE <<>>

RECURSIVE CheckEach(_, _)
CheckEach(ids, ctxs) ==
    IF ids = <<>> THEN <<>>
    ELSE check_single(Head(ids), ctxs[Head(ids)]) \o CheckEach(Tail(ids), ctxs)

RECURSIVE SumSeq(_)
SumSeq(q) == IF q = <<>> THEN 0 ELSE Head(q) + SumSeq(Tail(q))

\* the deduction of _calculate_health for one signal, in 1/504000
Deduction(signal) ==
    signal.severity *
        (CASE signal.drift_type = "conflict" -> 30
           [] signal.drift_type = "correction_pattern" -> 20
           [] signal.drift_type = "staleness" -> 15
           [] OTHER -> 10)

\* _calculate_health (contexts is not empty)
calculate_health(ids, ctxs, signals) ==
    LET health == HealthUnit - SumSeq([n \in 1..Len(signals) |-> Deduction(signals[n])])
        avg_confidence ==
            SumSeq([n \in 1..Len(ids) |-> Milli(ctxs[ids[n]].confidence)]) \div Len(ids)
        scaled == (health \div 1000) * (500 + avg_confidence \div 2)
    IN Max(0, Min(HealthUnit, scaled))

CountSignals(signals, types) ==
    Cardinality({n \in 1..Len(signals) : signals[n].drift_type \in types})

NoReport ==
    [signals |-> <<>>, overall_health |-> -1, contexts_checked |-> -1,
     stale_count |-> 0, conflicting_count |-> 0, needs_attention |-> FALSE]

\* detect: the DriftReport for a list of contexts (recommendations, which
\* are text derived from the signals, are left out)
detect(ids, ctxs) ==
    IF ids = <<>>
    THEN [signals |-> <<>>, overall_health |-> HealthUnit, contexts_checked |-> 0,
          stale_count |-> 0, conflicting_count |-> 0, needs_attention |-> FALSE]
    ELSE LET signals == CheckEach(ids, ctxs) \o check_conflicts(ids, ctxs)
             health == calculate_health(ids, ctxs, signals)
         IN [signals |-> signals,
             overall_health |-> health,
             contexts_checked |-> Len(ids),
             stale_count |-> CountSignals(signals, {"staleness"}),
             conflicting_count |->
                 CountSignals(signals, {"conflict", "correction_pattern"}),
             needs_attention |-> health < HEALTH_0_7 \/ Len(signals) > 0]

SeveritiesOf(signals, type) ==
    {signals[n].severity : n \in {m \in 1..Len(signals) : signals[m].drift_type = type}}

\* update_drift_status: the status it computes
new_status(signals) ==
    IF signals = <<>> THEN "stable"
    ELSE IF \E n \in 1..Len(signals) : signals[n].drift_type = "conflict"
    THEN "conflicting"
    ELSE IF \E n \in 1..Len(signals) : signals[n].drift_type = "correction_pattern"
    THEN "conflicting"
    ELSE LET stale_severities == SeveritiesOf(signals, "staleness")
         IN IF stale_severities # {}
            THEN IF SetMax(stale_severities) > SEVERITY_0_7 THEN "stale"
                 ELSE "drifting"
            ELSE "drifting"

\* the lists of contexts a caller passes to detect: existing ones, by id
ExistingIds == {i \in RecIds : contexts[i].exists}

RECURSIVE SortedSeq(_)
SortedSeq(S) ==
    IF S = {} THEN <<>>
    ELSE LET m == CHOOSE x \in S : \A y \in S : x <= y
         IN <<m>> \o SortedSeq(S \ {m})

\* history: the latest call, the context it was made on and its arguments
NoCall == [op |-> "none", id |-> 0, ids |-> <<>>, signals |-> <<>>]

Call(op, id, ids, signals) == [op |-> op, id |-> id, ids |-> ids, signals |-> signals]

\* calls made so far on the objects, their construction included
CallsMade ==
    SumSeq([i \in RecIds |->
        IF contexts[i].exists THEN 1 + Len(contexts[i].log) ELSE 0])

DriftInit ==
    /\ contexts = [i \in RecIds |-> NoContext]
    /\ report = NoReport
    /\ last_call = NoCall

\* Context(...): a caller builds an object
Construct(i, tier, value, confidence, age_hours) ==
    /\ UNCHANGED <<busvars, memvars, enginevars>>
    /\ ~contexts[i].exists
    /\ \A j \in RecIds : j < i => contexts[j].exists
    /\ CallsMade < MaxCalls
    /\ contexts' = [contexts EXCEPT ![i] = NewObject(tier, value, confidence, age_hours)]
    /\ last_call' = Call("construct", i, <<>>, <<>>)
    /\ report' = NoReport

\* context.record_correction()
RecordCorrection(i) ==
    /\ UNCHANGED <<busvars, memvars, enginevars>>
    /\ contexts[i].exists
    /\ CallsMade < MaxCalls
    /\ contexts' = [contexts EXCEPT ![i] =
            [Context_record_correction(@) EXCEPT
                !.log = Append(@, "record_correction")]]
    /\ last_call' = Call("record_correction", i, <<>>, <<>>)
    /\ report' = NoReport

\* context.confirm()
Confirm(i) ==
    /\ UNCHANGED <<busvars, memvars, enginevars>>
    /\ contexts[i].exists
    /\ CallsMade < MaxCalls
    /\ contexts' = [contexts EXCEPT ![i] =
            [Context_confirm(@) EXCEPT !.log = Append(@, "confirm")]]
    /\ last_call' = Call("confirm", i, <<>>, <<>>)
    /\ report' = NoReport

\* variant: detect also writes the status it would compute for each context
DetectEffectWriting(ids, ctxs) ==
    [i \in RecIds |->
        IF \E n \in 1..Len(ids) : ids[n] = i
        THEN [ctxs[i] EXCEPT !.drift_status = new_status(check_single(i, ctxs[i]))]
        ELSE ctxs[i]]

\* what detect leaves of the contexts it was given
DetectEffect(ids, ctxs) == ctxs

\* drift_detector.detect(contexts); the caller holds the report until its
\* next call
Detect(S) ==
    /\ UNCHANGED <<busvars, memvars, enginevars>>
    /\ S \subseteq ExistingIds
    /\ report' = detect(SortedSeq(S), contexts)
    /\ contexts' = DetectEffect(SortedSeq(S), contexts)
    /\ last_call' = Call("detect", 0, SortedSeq(S), <<>>)

\* variant: a list with no signal leaves the status as it is
StatusAfterUpdateKeepsOnEmpty(old_status, signals) ==
    IF signals = <<>> THEN old_status ELSE new_status(signals)

\* the status update_drift_status assigns
StatusAfterUpdate(old_status, signals) == new_status(signals)

\* drift_detector.update_drift_status(context, signals)
UpdateDriftStatus(i, signals) ==
    /\ UNCHANGED <<busvars, memvars, enginevars>>
    /\ contexts[i].exists
    /\ CallsMade < MaxCalls
    /\ contexts' = [contexts EXCEPT
            ![i].drift_status = StatusAfterUpdate(@, signals),
            ![i].log = Append(@, "update_drift_status")]
    /\ last_call' = Call("update_drift_status", i, <<>>, signals)
    /\ report' = NoReport

\* the signal lists callers pass to update_drift_status, other than the
\* signals of the report they hold
SignalSamples ==
    {DriftSignal("conflict", 1, "conflicts", SEVERITY_0_8, "resolve_conflict"),
     DriftSignal("correction_pattern", 1, "corrections", SEVERITY_0_5, "confirm_with_user"),
     DriftSignal("staleness", 1, "age", SEVERITY_0_7, "refresh"),
     DriftSignal("staleness", 1, "age", SEVERITY_0_8, "refresh"),
     DriftSignal("behavioral_mismatch", 1, "usage", SEVERITY_0_8, "investigate")}

SignalLists ==
    {<<>>} \cup {<<s>> : s \in SignalSamples}
           \cup {<<s, t>> : s \in {x \in SignalSamples : x.drift_type = "staleness"},
                            t \in {x \in SignalSamples : x.drift_type # "staleness"}}


\* time goes by: every object is older by the given hours
HoursPass(h) ==
    /\ UNCHANGED <<busvars, memvars, enginevars>>
    /\ ExistingIds # {}
    /\ \A i \in ExistingIds : contexts[i].age_hours + h <= MaxAgeHours
    /\ contexts' = [i \in RecIds |->
            IF contexts[i].exists
            THEN [contexts[i] EXCEPT !.age_hours = @ + h]
            ELSE contexts[i]]
    /\ last_call' = Call("hours_pass", 0, <<>>, <<>>)
    /\ report' = NoReport

\* ages around the three windows the detector and its documentation name
\* (24 h, a week, 7 * 72 h): an hour under, the window itself, an hour over
StalenessAges ==
    UNION {{w - 1, w, w + 1} :
           w \in {STALENESS_HOURS, 7 * STALENESS_HOURS, CRITICAL_STALENESS_HOURS * 7}}

\* confidences around the two thresholds of _check_confidence
StalenessConfidences == {FLOAT_0_1, FLOAT_0_2, FLOAT_0_3, FLOAT_0_4, FLOAT_0_9}

\* the records handed to detect: one record of any tier, age and confidence
StalenessRecords ==
    {NewObject(tier, "a", confidence, age_hours) :
        tier \in StoreTiers \cup {"ephemeral"}, confidence \in StalenessConfidences,
        age_hours \in StalenessAges}

\* ============================================================ prompt composer
\* PromptComposer.compose (app/engines/composer.py) and
\* AdvancedPromptComposer.compose (app/engines/advanced_composer.py), as
\* functions of their arguments. A dict is a function on the keys it holds, an
\* insertion-ordered dict whose items are rendered is a sequence of <<key,
\* value>> pairs, a text is the sequence of its pieces, and a score is a
\* number of thousandths.

None == "None"
EmptyDict == [k \in {} |-> None]

dict_get(d, k, default) == IF k \in DOMAIN d THEN d[k] ELSE default

MAX_CONTEXT_TOKENS == 500
MIN_RELEVANCE_SCORE == 300

InjectionStyle == {"system_prompt", "context_block", "inline", "metadata"}

RECURSIVE Join(_, _)
\* sep.join(parts)
Join(parts, sep) ==
    IF parts = <<>> THEN <<>>
    ELSE IF Len(parts) = 1 THEN Head(parts)
    ELSE Head(parts) \o <<sep>> \o Join(Tail(parts), sep)

\* str() of a small int
str_int(n) ==
    CASE n = 0 -> "0" [] n = 1 -> "1" [] n = 2 -> "2" [] n = 3 -> "3"
      [] n = 4 -> "4" [] n = 5 -> "5" [] n = 6 -> "6" [] n = 7 -> "7"
      [] n = 8 -> "8" [] n = 9 -> "9"

\* json.dumps of a float in [0, 1) with one decimal
json_float(x) == "0." \o str_int(x \div 100)

ContextElement(key, value, context_type, relevance, confidence, token_estimate, interpretation) ==
    [key |-> key, value |-> value, context_type |-> context_type,
     relevance |-> relevance, confidence |-> confidence,
     token_estimate |-> token_estimate, interpretation |-> interpretation]

relevance_weights(relevance) ==
    CASE relevance = "critical" -> 10
      [] relevance = "high" -> 8
      [] relevance = "medium" -> 5
      [] relevance = "low" -> 2
      [] relevance = "irrelevant" -> 0

\* ContextElement.inclusion_score, in ten-thousandths
inclusion_score(e) == relevance_weights(e.relevance) * e.confidence

score_to_relevance(score) ==
    IF score >= 800 THEN "critical"
    ELSE IF score >= 600 THEN "high"
    ELSE IF score >= 400 THEN "medium"
    ELSE IF score >= 200 THEN "low"
    ELSE "irrelevant"

Min2(a, b) == IF a <= b THEN a ELSE b
Max2(a, b) == IF a >= b THEN a ELSE b

\* a message is known by the number of keywords of each list it holds
analyze_message(message) ==
    [temporal |-> Min2(1000, (message.temporal * 1000) \div 5),
     spatial |-> Min2(1000, (message.spatial * 1000) \div 5),
     situational |-> Min2(1000, (message.situational * 1000) \div 5)]

build_temporal_elements(context, signals) ==
    LET base_relevance == signals.temporal
        time_info == dict_get(context, "formatted", EmptyDict)
        confidence(default) ==
            dict_get(dict_get(context, "confidence", EmptyDict), "score", default)
        current_time ==
            IF "current_time" \in DOMAIN context \/ "formatted" \in DOMAIN context
            THEN << ContextElement("current_time",
                      << <<"time", dict_get(time_info, "time",
                                            dict_get(context, "current_time", None))>>,
                         <<"date", dict_get(time_info, "date", None)>>,
                         <<"day", dict_get(time_info, "day_of_week", None)>>,
                         <<"timezone", dict_get(context, "timezone", None)>> >>,
                      "temporal",
                      score_to_relevance(300 + (base_relevance * 7) \div 10),
                      confidence(800), 30,
                      <<"It is currently ",
                        dict_get(time_info, "time_of_day", "unknown time"),
                        " on ",
                        dict_get(time_info, "day_of_week", "a day")>>) >>
            ELSE <<>>
        time_semantics ==
            IF "semantics" \in DOMAIN context
            THEN LET semantics == context["semantics"]
                 IN << ContextElement("time_semantics",
                         << <<"time_of_day", dict_get(semantics, "time_of_day", None)>>,
                            <<"is_weekend", dict_get(semantics, "is_weekend", None)>>,
                            <<"is_business_hours",
                              dict_get(semantics, "is_business_hours", None)>> >>,
                         "temporal",
                         score_to_relevance((base_relevance * 8) \div 10),
                         confidence(700), 25, <<>>) >>
            ELSE <<>>
    IN current_time \o time_semantics

build_spatial_elements(context, signals) ==
    LET base_relevance == signals.spatial
        confidence(default) ==
            dict_get(dict_get(context, "confidence", EmptyDict), "score", default)
        location ==
            IF "country" \in DOMAIN context \/ "region" \in DOMAIN context
            THEN << ContextElement("location",
                      << <<"country", dict_get(context, "country", None)>>,
                         <<"region", dict_get(context, "region", None)>>,
                         <<"city", dict_get(context, "city", None)>> >>,
                      "spatial",
                      score_to_relevance(200 + (base_relevance * 6) \div 10),
                      confidence(600), 20, <<>>) >>
            ELSE <<>>
        locale ==
            IF "locale" \in DOMAIN context
            THEN << ContextElement("locale",
                      << <<"locale", dict_get(context, "locale", None)>>,
                         <<"language", dict_get(context, "language", None)>>,
                         <<"currency", dict_get(context, "currency", None)>>,
                         <<"units", dict_get(context, "units", None)>> >>,
                      "spatial",
                      score_to_relevance((base_relevance * 5) \div 10),
                      confidence(700), 25, <<>>) >>
            ELSE <<>>
    IN location \o locale

build_situational_elements(context, signals) ==
    LET base_relevance == signals.situational
        active_tasks == dict_get(context, "active_tasks", <<>>)
        current_task ==
            IF active_tasks # <<>> /\ DOMAIN active_tasks[1] # {}
            THEN LET primary_task == active_tasks[1]
                 IN << ContextElement("current_task",
                         << <<"description", dict_get(primary_task, "description", None)>>,
                            <<"status", dict_get(primary_task, "status", None)>> >>,
                         "situational",
                         score_to_relevance(400 + (base_relevance * 6) \div 10),
                         dict_get(primary_task, "confidence", 600), 35,
                         <<"User is working on: ",
                           dict_get(primary_task, "description", "unknown task")>>) >>
            ELSE <<>>
        thread == dict_get(context, "current_thread", EmptyDict)
        conversation_context ==
            IF DOMAIN thread # {} /\ dict_get(thread, "message_count", 0) > 1
            THEN << ContextElement("conversation_context",
                      << <<"topic", dict_get(thread, "topic", None)>>,
                         <<"message_count", str_int(thread["message_count"])>>,
                         <<"duration_minutes",
                           dict_get(thread, "duration_minutes", None)>> >>,
                      "situational",
                      score_to_relevance((base_relevance * 7) \div 10),
                      700, 20, <<>>) >>
            ELSE <<>>
        implicit_assumptions == dict_get(context, "implicit_assumptions", <<>>)
        assumptions ==
            IF implicit_assumptions # <<>>
            THEN << ContextElement("assumptions", implicit_assumptions,
                      "situational",
                      score_to_relevance((base_relevance * 5) \div 10),
                      500, 40, <<>>) >>
            ELSE <<>>
    IN current_task \o conversation_context \o assumptions

RECURSIVE InsertByScore(_, _)
\* the place of e in a list sorted by descending inclusion_score, behind the
\* elements of equal score (list.sort is stable)
InsertByScore(sorted, e) ==
    IF sorted = <<>> THEN <<e>>
    ELSE IF inclusion_score(Head(sorted)) >= inclusion_score(e)
         THEN <<Head(sorted)>> \o InsertByScore(Tail(sorted), e)
         ELSE <<e>> \o sorted

RECURSIVE SortByScore(_)
\* elements.sort(key=lambda e: e.inclusion_score, reverse=True)
SortByScore(elements) ==
    IF elements = <<>> THEN <<>>
    ELSE InsertByScore(SortByScore(SubSeq(elements, 1, Len(elements) - 1)),
                       elements[Len(elements)])

RECURSIVE SumTokens(_)
SumTokens(elements) ==
    IF elements = <<>> THEN 0
    ELSE Head(elements).token_estimate + SumTokens(Tail(elements))

RECURSIVE SelectLoop(_, _, _, _, _, _)
SelectLoop(elements, max_tokens, min_relevance, included, excluded, current_tokens) ==
    IF elements = <<>> THEN [included |-> included, excluded |-> excluded]
    ELSE LET element == Head(elements)
             rest == Tail(elements)
         IN IF element.relevance = "irrelevant"
            THEN SelectLoop(rest, max_tokens, min_relevance, included,
                            Append(excluded, element), current_tokens)
            ELSE IF element.confidence < min_relevance
            THEN SelectLoop(rest, max_tokens, min_relevance, included,
                            Append(excluded, element), current_tokens)
            ELSE IF current_tokens + element.token_estimate <= max_tokens
            THEN SelectLoop(rest, max_tokens, min_relevance,
                            Append(included, element), excluded,
                            current_tokens + element.token_estimate)
            ELSE IF element.relevance = "critical"
            THEN SelectLoop(rest, max_tokens, min_relevance,
                            Append(included, element), excluded,
                            current_tokens + element.token_estimate)
            ELSE SelectLoop(rest, max_tokens, min_relevance, included,
                            Append(excluded, element), current_tokens)

select_elements(elements, max_tokens, min_relevance) ==
    SelectLoop(elements, max_tokens, min_relevance, <<>>, <<>>, 0)

\* the items of a dict as "k=v" texts, the None values left out
value_to_string(value) ==
    LET items == SelectSeq(value, LAMBDA kv : kv[2] # None)
    IN Join([i \in 1..Len(items) |-> <<items[i][1], "=", items[i][2]>>], ", ")

ElementLine(elem) ==
    IF elem.interpretation # <<>>
    THEN <<"- ">> \o elem.interpretation
    ELSE <<"- ", elem.key, ": ">> \o value_to_string(elem.value)

ValueLine(elem) == <<"- ", elem.key, ": ">> \o value_to_string(elem.value)

format_as_system_prompt(elements) ==
    LET by_type(t) == SelectSeq(elements, LAMBDA e : e.context_type = t)
        temporal == by_type("temporal")
        spatial == by_type("spatial")
        situational == by_type("situational")
        lines ==
            << <<"## Current Context">> >>
            \o (IF temporal # <<>>
                THEN << <<"\n### Time & Date">> >>
                     \o [i \in 1..Len(temporal) |-> ElementLine(temporal[i])]
                ELSE <<>>)
            \o (IF spatial # <<>>
                THEN << <<"\n### Location">> >>
                     \o [i \in 1..Len(spatial) |-> ValueLine(spatial[i])]
                ELSE <<>>)
            \o (IF situational # <<>>
                THEN << <<"\n### Context">> >>
                     \o [i \in 1..Len(situational) |-> ElementLine(situational[i])]
                ELSE <<>>)
            \o << <<"\n---">>,
                  <<"Use this context to ground your responses in the user's reality.">>,
                  <<"Do not mention this context unless directly relevant to the user's query.">> >>
    IN Join(lines, "\n")

\* json.dumps of the value dict: every item, None as null
json_value(value) ==
    Join([i \in 1..Len(value) |->
            <<value[i][1], ": ",
              IF value[i][2] = None THEN "null" ELSE value[i][2]>>], ", ")

format_as_context_block(elements) ==
    <<"<context>\n">>
    \o Join([i \in 1..Len(elements) |->
               <<elements[i].key, ": {value: {">> \o json_value(elements[i].value)
               \o <<"}, type: ", elements[i].context_type,
                    ", confidence: ", json_float(elements[i].confidence), "}">>],
            ",\n")
    \o <<"\n</context>">>

format_as_inline(elements) ==
    <<"[Context: ">>
    \o Join([i \in 1..Len(elements) |->
               IF elements[i].interpretation # <<>>
               THEN elements[i].interpretation
               ELSE <<elements[i].key, ": ">> \o value_to_string(elements[i].value)],
            "; ")
    \o <<"]">>

format_context(elements, style) ==
    IF elements = <<>> THEN <<>>
    ELSE IF style = "system_prompt" THEN format_as_system_prompt(elements)
    ELSE IF style = "context_block" THEN format_as_context_block(elements)
    ELSE IF style = "inline" THEN format_as_inline(elements)
    ELSE format_as_system_prompt(elements)

\* PromptComposer(max_tokens, min_relevance).compose(...)
compose(max_tokens, min_relevance, user_message, temporal_context, spatial_context, situational_context, injection_style) ==
    LET relevance_signals == analyze_message(user_message)
        elements ==
            (IF DOMAIN temporal_context # {}
             THEN build_temporal_elements(temporal_context, relevance_signals)
             ELSE <<>>)
            \o (IF DOMAIN spatial_context # {}
                THEN build_spatial_elements(spatial_context, relevance_signals)
                ELSE <<>>)
            \o (IF DOMAIN situational_context # {}
                THEN build_situational_elements(situational_context, relevance_signals)
                ELSE <<>>)
        selected == select_elements(SortByScore(elements), max_tokens, min_relevance)
    IN [system_context |-> format_context(selected.included, injection_style),
        user_message |-> user_message,
        included_context |-> selected.included,
        excluded_context |-> selected.excluded,
        total_tokens |-> SumTokens(selected.included)]

\* ---- AdvancedPromptComposer

RECURSIVE ConcatAll(_)
\* "".join(pieces)
ConcatAll(pieces) ==
    IF pieces = <<>> THEN "" ELSE Head(pieces) \o ConcatAll(Tail(pieces))

\* repr() of a dict value: a str in quotes, None bare
py_repr(v) == IF v = None THEN "None" ELSE "'" \o v \o "'"

\* str() of a dict
py_str(value) ==
    "{" \o ConcatAll(Join([i \in 1..Len(value) |->
                             <<"'", value[i][1], "': ", py_repr(value[i][2])>>],
                          ", ")) \o "}"

\* value.get(k) of a dict given by its items
item_get(value, k) ==
    LET hits == SelectSeq(value, LAMBDA kv : kv[1] = k)
    IN IF hits = <<>> THEN None ELSE hits[Len(hits)][2]

\* min_context_tokens of TokenBudget
MIN_CONTEXT_TOKENS == 100
\* tokens TokenBudget reserves for the response
RESPONSE_RESERVE == 500

\* TokenBudget.__post_init__: allocated_context_tokens. The ratio is held as
\* a number of 4500ths.
TokenBudget(user_prompt_tokens, max_total_tokens, max_context_tokens) ==
    LET ratio == IF user_prompt_tokens < 50 THEN 4500
                 ELSE IF user_prompt_tokens > 500 THEN 450
                 ELSE 4500 - 9 * (user_prompt_tokens - 50)
        sliding == (MIN_CONTEXT_TOKENS * 4500
                    + (max_context_tokens - MIN_CONTEXT_TOKENS) * ratio) \div 4500
        remaining == max_total_tokens - user_prompt_tokens - RESPONSE_RESERVE
    IN [user_prompt_tokens |-> user_prompt_tokens,
        max_total_tokens |-> max_total_tokens,
        max_context_tokens |-> max_context_tokens,
        allocated_context_tokens |->
            Min2(sliding, Max2(MIN_CONTEXT_TOKENS, remaining))]

TEMPORAL_SIGNALS ==
    {"when", "time", "date", "today", "tomorrow", "yesterday", "schedule",
     "meeting", "deadline", "morning", "afternoon", "evening", "night", "week",
     "month", "year", "hour", "minute"}

SPATIAL_SIGNALS ==
    {"where", "location", "here", "there", "near", "nearby", "city", "country",
     "region", "place", "address", "weather", "local", "distance", "directions",
     "map"}

SITUATIONAL_SIGNALS ==
    {"what", "which", "this", "that", "it", "they", "working", "project", "task",
     "doing", "continue", "previous", "last", "current", "ongoing", "same",
     "similar"}

RECURSIVE Repeat(_, _)
\* s * n
Repeat(s, n) == IF n = 0 THEN "" ELSE s \o Repeat(s, n - 1)

\* a task description of 720 characters
LongDescription == Repeat("migrate the billing service and its reports; ", 16)

\* re.findall(r'\w+', s.lower()) of a string the elements hold: the strings
\* of several words and of capitals are listed, any other is one word
words_of(s) ==
    CASE s = "Berlin" -> {"berlin"}
      [] s = "Germany" -> {"germany"}
      [] s = "Monday" -> {"monday"}
      [] s = "fix the login bug" -> {"fix", "the", "login", "bug"}
      [] s = "de-DE" -> {"de"}
      [] s = "10:30" -> {"10", "30"}
      [] s = "2024-02-01" -> {"2024", "02", "01"}
      [] s = LongDescription ->
            {"migrate", "the", "billing", "service", "and", "its", "reports"}
      [] s = None -> {"none"}
      [] OTHER -> {s}

\* the words of str(element.value) and the key
element_words(element) ==
    UNION {words_of(element.value[i][1]) \cup words_of(element.value[i][2]) :
             i \in 1..Len(element.value)}
    \cup words_of(element.key)

keyword_similarity(query_words, element) ==
    LET type_signals == IF element.context_type = "temporal" THEN TEMPORAL_SIGNALS
                        ELSE IF element.context_type = "spatial" THEN SPATIAL_SIGNALS
                        ELSE SITUATIONAL_SIGNALS
        signal_overlap == Cardinality(query_words \cap type_signals)
        value_overlap == Cardinality(query_words \cap element_words(element))
    IN IF signal_overlap > 0 /\ value_overlap > 0
       THEN Min2(1000, 500 + signal_overlap * 200 + value_overlap * 100)
       ELSE IF signal_overlap > 0 THEN Min2(700, 300 + signal_overlap * 200)
       ELSE IF value_overlap > 0 THEN Min2(600, 200 + value_overlap * 100)
       ELSE 100

\* RelevanceScore; combined_score in ten-thousandths
RelevanceScore(query_words, element) ==
    LET query_similarity == keyword_similarity(query_words, element)
    IN [element_key |-> element.key,
        query_similarity |-> query_similarity,
        confidence_score |-> element.confidence,
        combined_score |-> query_similarity * 4 + 800 * 2 + 500 * 1
                           + element.confidence * 3]

RECURSIVE InsertByCombined(_, _)
InsertByCombined(sorted, s) ==
    IF sorted = <<>> THEN <<s>>
    ELSE IF Head(sorted).combined_score >= s.combined_score
         THEN <<Head(sorted)>> \o InsertByCombined(Tail(sorted), s)
         ELSE <<s>> \o sorted

RECURSIVE score_elements(_, _)
\* BiEncoderRanker.score_elements without embeddings: highest first, stable
score_elements(query_words, elements) ==
    IF elements = <<>> THEN <<>>
    ELSE InsertByCombined(
            score_elements(query_words, SubSeq(elements, 1, Len(elements) - 1)),
            RelevanceScore(query_words, elements[Len(elements)]))

\* the keys that hold the given word
KeysHolding(word) ==
    CASE word = "task" -> {"current_task", "active_task", "task_list"}
      [] word = "deadline" -> {"deadline", "project_deadline"}
      [] word = "preference" -> {"user_preference"}

RECURSIVE extract_activity(_)
extract_activity(elements) ==
    IF elements = <<>> THEN "working"
    ELSE LET elem == Head(elements)
         IN IF elem.context_type = "situational"
               /\ (elem.key \in {"current_task", "active_task", "activity"}
                   \/ elem.key \in KeysHolding("task"))
            THEN IF elem.value # <<>> THEN py_str(elem.value) ELSE "working"
            ELSE extract_activity(Tail(elements))

\* the values of the given keys that are set, in the given order
SetParts(value, keys) ==
    LET got == [i \in 1..Len(keys) |-> item_get(value, keys[i])]
    IN SelectSeq(got, LAMBDA v : v # None /\ v # "")

RECURSIVE extract_location(_)
extract_location(elements) ==
    IF elements = <<>> THEN "an unspecified location"
    ELSE LET elem == Head(elements)
             parts == SetParts(elem.value, <<"city", "region", "country">>)
         IN IF elem.context_type = "spatial" /\ parts # <<>>
            THEN ConcatAll(Join([i \in 1..Len(parts) |-> <<parts[i]>>], ", "))
            ELSE extract_location(Tail(elements))

RECURSIVE extract_time(_)
extract_time(elements) ==
    IF elements = <<>> THEN "the current time"
    ELSE LET elem == Head(elements)
             parts == SetParts(elem.value, <<"time_of_day", "day_of_week">>)
         IN IF elem.context_type = "temporal" /\ parts # <<>>
            THEN ConcatAll(Join([i \in 1..Len(parts) |-> <<parts[i]>>], " "))
            ELSE extract_time(Tail(elements))

Constraint(elem) ==
    IF elem.key \in KeysHolding("deadline") THEN <<"deadline: " \o py_str(elem.value)>>
    ELSE IF elem.key \in KeysHolding("preference")
    THEN <<"prefers " \o py_str(elem.value)>>
    ELSE IF elem.key = "communication_style"
    THEN <<"prefers " \o py_str(elem.value) \o " communication">>
    ELSE <<>>

RECURSIVE Constraints(_)
Constraints(elements) ==
    IF elements = <<>> THEN <<>>
    ELSE Constraint(Head(elements)) \o Constraints(Tail(elements))

extract_constraint(elements) ==
    LET constraints == Constraints(elements)
    IN IF constraints # <<>>
       THEN ConcatAll(Join([i \in 1..Min2(2, Len(constraints)) |-> <<constraints[i]>>],
                           "; "))
       ELSE "no specific constraints"

\* SituationBrief.__post_init__
SituationBrief(activity, location, time_description, constraint) ==
    LET full_brief == "User is currently " \o activity \o " in " \o location
                      \o " at " \o time_description \o ". "
                      \o "Previous context indicates " \o constraint \o "."
    IN [activity |-> activity, location |-> location,
        time_description |-> time_description, constraint |-> constraint,
        full_brief |-> full_brief, token_count |-> Len(full_brief) \div 4]

\* ContextDistiller.distill
distill(elements) ==
    SituationBrief(extract_activity(elements), extract_location(elements),
                   extract_time(elements), extract_constraint(elements))

\* AdvancedPromptComposer._value_to_str: the items whose value is truthy
value_to_str(value) ==
    LET items == SelectSeq(value, LAMBDA kv : kv[2] # None /\ kv[2] # "")
    IN Join([i \in 1..Len(items) |-> <<items[i][1], "=", items[i][2]>>], ", ")

AdvancedPart(elem) ==
    IF elem.interpretation # <<>> THEN elem.interpretation
    ELSE <<elem.key, ": ">> \o value_to_str(elem.value)

\* AdvancedPromptComposer._format_elements
format_elements(elements, style) ==
    IF style = "system_prompt"
    THEN Join(<< <<"Current user context:">> >>
              \o [i \in 1..Len(elements) |-> <<"- ">> \o AdvancedPart(elements[i])],
              "\n")
    ELSE IF style = "context_block" THEN format_as_context_block(elements)
    ELSE <<"[Context: ">>
         \o Join([i \in 1..Len(elements) |-> AdvancedPart(elements[i])], "; ")
         \o <<"]">>

\* element_map = {e.key: e for e in elements}: the last element of the key
element_map(elements, key) ==
    LET hits == SelectSeq(elements, LAMBDA e : e.key = key)
    IN hits[Len(hits)]

RECURSIVE RankSelect(_, _, _, _, _, _)
\* the RANK_SELECT loop over the relevance scores
RankSelect(scores, elements, allocated, selected, excluded, current_tokens) ==
    IF scores = <<>>
    THEN [selected |-> selected, excluded |-> excluded,
          current_tokens |-> current_tokens]
    ELSE LET elem == element_map(elements, Head(scores).element_key)
         IN IF current_tokens + elem.token_estimate <= allocated
            THEN RankSelect(Tail(scores), elements, allocated,
                            Append(selected, elem), excluded,
                            current_tokens + elem.token_estimate)
            ELSE RankSelect(Tail(scores), elements, allocated, selected,
                            Append(excluded, Head(scores).element_key),
                            current_tokens)

\* AdvancedPromptComposer(max_context_tokens).compose(...); a message is
\* known by its length and the set of its words
advanced_compose(max_context_tokens, user_message, elements, max_total_tokens, injection_style) ==
    LET user_prompt_tokens == user_message.length \div 4
        token_budget == TokenBudget(user_prompt_tokens, max_total_tokens,
                                    max_context_tokens)
        allocated == token_budget.allocated_context_tokens
        relevance_scores == score_elements(user_message.words, elements)
        original_tokens == SumTokens(elements)
        strategy == IF original_tokens <= allocated THEN "none"
                    ELSE IF original_tokens <= allocated * 2 THEN "rank_select"
                    ELSE "distill"
        ranked == RankSelect(relevance_scores, elements, allocated, <<>>, <<>>, 0)
        situation_brief == distill(elements)
        keys == [i \in 1..Len(elements) |-> elements[i].key]
    IN [user_message |-> user_message,
        token_budget |-> token_budget,
        situation_brief |-> situation_brief,
        relevance_scores |-> relevance_scores,
        summarization_strategy |-> strategy,
        original_context_tokens |-> original_tokens,
        system_context |->
            IF strategy = "none" THEN format_elements(elements, injection_style)
            ELSE IF strategy = "rank_select"
            THEN format_elements(ranked.selected, injection_style)
            ELSE <<situation_brief.full_brief>>,
        final_context_tokens |->
            IF strategy = "none" THEN original_tokens
            ELSE IF strategy = "rank_select" THEN ranked.current_tokens
            ELSE situation_brief.token_count,
        included_elements |->
            IF strategy = "none" THEN keys
            ELSE IF strategy = "rank_select"
            THEN [i \in 1..Len(ranked.selected) |-> ranked.selected[i].key]
            ELSE <<"situation_brief">>,
        excluded_elements |->
            IF strategy = "none" THEN <<>>
            ELSE IF strategy = "rank_select" THEN ranked.excluded
            ELSE keys]

\* ---- the calls

Secrets == {"hunter2", "s3cret"}

\* user messages for compose, by the keywords they hold
ComposeMessages ==
    {[temporal |-> 0, spatial |-> 0, situational |-> 0],
     [temporal |-> 5, spatial |-> 0, situational |-> 2],
     [temporal |-> 4, spatial |-> 5, situational |-> 0],
     [temporal |-> 1, spatial |-> 3, situational |-> 6],
     [temporal |-> 0, spatial |-> 0, situational |-> 4]}

TemporalContexts ==
    {EmptyDict,
     [current_time |-> "10:30", timezone |-> "UTC"],
     [formatted |-> [time |-> "10:30", date |-> "2024-01-15",
                     day_of_week |-> "Monday", time_of_day |-> "morning"],
      semantics |-> [time_of_day |-> "morning", is_weekend |-> "False"],
      confidence |-> [score |-> 900]]}

SpatialContexts ==
    {EmptyDict,
     [country |-> "Germany", city |-> "Berlin", locale |-> "de-DE",
      confidence |-> [score |-> 200]],
     [region |-> "Bavaria", locale |-> "de-DE", units |-> "metric"]}

SituationalSamples == 1..4

\* situational contexts; each holds the given secret under credential keys
SituationalContext(sample, secret) ==
    CASE sample = 1 -> EmptyDict
      [] sample = 2 ->
            [active_tasks |-> <<[description |-> "fix the login bug",
                                 status |-> "active", token |-> secret]>>,
             current_thread |-> [topic |-> "auth", message_count |-> 3],
             ssn |-> secret]
      [] sample = 3 ->
            [active_tasks |-> <<[description |-> "fix the login bug",
                                 confidence |-> 200]>>,
             current_thread |-> [topic |-> "auth", message_count |-> 1],
             implicit_assumptions |-> << <<"theme", "dark">>,
                                         <<"password", secret>> >>,
             password |-> secret]
      [] sample = 4 ->
            [implicit_assumptions |-> << <<"api_key", secret>> >>,
             credentials |-> secret]

ComposeBudgets == {20, 50, MAX_CONTEXT_TOKENS}

\* user messages for the advanced composer, by their length and their words
AdvancedMessages ==
    {[length |-> 40, words |-> {"what", "task"}],
     [length |-> 1100, words |-> {"where", "berlin"}],
     [length |-> 2400, words |-> {"continue", "deadline"}]}

BuiltElements ==
    LET signals == [temporal |-> 400, spatial |-> 1000, situational |-> 400]
    IN build_temporal_elements(
           [formatted |-> [time |-> "10:30", day_of_week |-> "Monday",
                           time_of_day |-> "morning"],
            semantics |-> [time_of_day |-> "morning"]], signals)
       \o build_spatial_elements(
           [country |-> "Germany", city |-> "Berlin", locale |-> "de-DE"], signals)
       \o build_situational_elements(
           [active_tasks |-> <<[description |-> "fix the login bug"]>>,
            current_thread |-> [topic |-> "auth", message_count |-> 3]], signals)

LargeElements ==
    <<ContextElement("current_task",
                     << <<"description", LongDescription>>, <<"status", "active">> >>,
                     "situational", "high", 900, 300, <<>>),
      ContextElement("location", << <<"city", "Berlin">>, <<"country", "Germany">> >>,
                     "spatial", "medium", 600, 20, <<>>),
      ContextElement("project_deadline", << <<"date", "2024-02-01">> >>,
                     "situational", "high", 800, 40, <<>>)>>

PreferenceElements ==
    <<ContextElement("user_preference", << <<"tone", "brief">> >>,
                     "situational", "medium", 500, 150, <<>>),
      ContextElement("time_semantics", << <<"time_of_day", "morning">> >>,
                     "temporal", "low", 700, 150, <<>>),
      ContextElement("user_preference", << <<"tone", "formal">> >>,
                     "situational", "medium", 700, 100, <<>>)>>

AdvancedElementLists == {<<>>, BuiltElements, LargeElements, PreferenceElements}

NoComposed == [call |-> "none"]

\* one PromptComposer(max_tokens).compose call
Compose(max_tokens, user_message, temporal_context, spatial_context, sample, secret, injection_style) ==
    /\ composed = NoComposed
    /\ UNCHANGED <<busvars, memvars, driftvars, decayvars, timevars, versionvars>>
    /\ composed' =
         [call |-> "compose",
          max_tokens |-> max_tokens,
          user_message |-> user_message,
          temporal_context |-> temporal_context,
          spatial_context |-> spatial_context,
          sample |-> sample,
          secret |-> secret,
          injection_style |-> injection_style,
          prompt |-> compose(max_tokens, MIN_RELEVANCE_SCORE, user_message,
                             temporal_context, spatial_context,
                             SituationalContext(sample, secret), injection_style)]

\* one AdvancedPromptComposer(max_context_tokens).compose call
AdvancedCompose(max_context_tokens, user_message, elements, max_total_tokens, injection_style) ==
    /\ composed = NoComposed
    /\ UNCHANGED <<busvars, memvars, driftvars, decayvars, timevars, versionvars>>
    /\ composed' =
         [call |-> "advanced",
          max_context_tokens |-> max_context_tokens,
          elements |-> elements,
          prompt |-> advanced_compose(max_context_tokens, user_message, elements,
                                      max_total_tokens, injection_style)]

ComposeInit == composed = NoComposed

ComposeNext ==
    \/ \E max_tokens \in ComposeBudgets, m \in ComposeMessages,
          t \in TemporalContexts, s \in SpatialContexts,
          sample \in SituationalSamples, secret \in Secrets,
          style \in InjectionStyle :
          Compose(max_tokens, m, t, s, sample, secret, style)
    \/ \E max_context_tokens \in {40, MAX_CONTEXT_TOKENS}, m \in AdvancedMessages,
          elements \in AdvancedElementLists, max_total_tokens \in {1000, 4096},
          style \in InjectionStyle :
          AdvancedCompose(max_context_tokens, m, elements, max_total_tokens, style)

\* ============================================================ version manager
\* ContextVersionManager (app/core/semantic_versioning.py): the snapshots it
\* keeps per user, as its calls leave them. A version string is the sequence
\* of its dot-separated numbers; a snapshot id (uuid4) is a fresh number.

Users == {"u1", "u2"}

\* no snapshot id: the None of _latest.get and of parent_snapshot_id
NoSnapshotId == 0

SemanticVersion(major, minor, patch) ==
    [major |-> major, minor |-> minor, patch |-> patch]

\* SemanticVersion.__str__
version_str(version) == <<version.major, version.minor, version.patch>>

\* SemanticVersion.parse
version_parse(version_str_) ==
    SemanticVersion(IF Len(version_str_) > 0 THEN version_str_[1] ELSE 1,
                    IF Len(version_str_) > 1 THEN version_str_[2] ELSE 0,
                    IF Len(version_str_) > 2 THEN version_str_[3] ELSE 0)

\* SemanticVersion.bump, the patch bump leaving the version as it is
bump_patch_unchanged(version, version_type) ==
    IF version_type = "major" THEN SemanticVersion(version.major + 1, 0, 0)
    ELSE IF version_type = "minor"
    THEN SemanticVersion(version.major, version.minor + 1, 0)
    ELSE SemanticVersion(version.major, version.minor, version.patch)

\* SemanticVersion.bump, the major bump keeping minor and patch
bump_major_keeping_rest(version, version_type) ==
    IF version_type = "major"
    THEN SemanticVersion(version.major + 1, version.minor, version.patch)
    ELSE IF version_type = "minor"
    THEN SemanticVersion(version.major, version.minor + 1, 0)
    ELSE SemanticVersion(version.major, version.minor, version.patch + 1)

\* SemanticVersion.bump
bump(version, version_type) ==
    IF version_type = "major" THEN SemanticVersion(version.major + 1, 0, 0)
    ELSE IF version_type = "minor"
    THEN SemanticVersion(version.major, version.minor + 1, 0)
    ELSE SemanticVersion(version.major, version.minor, version.patch + 1)

\* context states handed to create_snapshot, none with coordinates
SnapshotContexts ==
    {[spatial |-> [city |-> "Berlin"],
      temporal |-> [time_of_day |-> "morning", day_of_week |-> "Monday"]],
     [spatial |-> [city |-> "Berlin"],
      temporal |-> [time_of_day |-> "evening", day_of_week |-> "Monday"],
      situational |-> [current_task |-> "review"],
      meta |-> [drift_status |-> "conflicting"]]}

\* the context types in the order json.dumps(sort_keys=True) writes them
SortedTypes == <<"meta", "situational", "spatial", "temporal">>

\* the keys of the per-type maps in the order json.dumps(sort_keys=True)
\* writes them
SortedKeys ==
    <<"city", "current_task", "day_of_week", "drift_status", "time_of_day">>

\* json.dumps(d, sort_keys=True) of a per-type map: its items by sorted key
json_dumps_sorted(d) ==
    LET present == SelectSeq(SortedKeys, LAMBDA k : k \in DOMAIN d)
    IN [i \in 1..Len(present) |-> <<present[i], d[present[i]]>>]

\* ContextSnapshot._calculate_checksum: the digest stands as the sorted JSON
\* text it is taken of
calculate_checksum(temporal_context, spatial_context, situational_context, meta_context) ==
    LET data == [temporal |-> temporal_context, spatial |-> spatial_context,
                 situational |-> situational_context, meta |-> meta_context]
    IN [i \in 1..Len(SortedTypes) |->
            <<SortedTypes[i], json_dumps_sorted(data[SortedTypes[i]])>>]

ContextSnapshot(snapshot_id, user_id, version, trigger, context, parent_snapshot_id, description, tags) ==
    [snapshot_id |-> snapshot_id, user_id |-> user_id, version |-> version,
     trigger |-> trigger,
     checksum |-> calculate_checksum(dict_get(context, "temporal", EmptyDict),
                                     dict_get(context, "spatial", EmptyDict),
                                     dict_get(context, "situational", EmptyDict),
                                     dict_get(context, "meta", EmptyDict)),
     temporal_context |-> dict_get(context, "temporal", EmptyDict),
     spatial_context |-> dict_get(context, "spatial", EmptyDict),
     situational_context |-> dict_get(context, "situational", EmptyDict),
     meta_context |-> dict_get(context, "meta", EmptyDict),
     parent_snapshot_id |-> parent_snapshot_id,
     description |-> description, tags |-> tags]

\* ContextSnapshot.get_all_context
get_all_context(snapshot) ==
    [temporal |-> snapshot.temporal_context,
     spatial |-> snapshot.spatial_context,
     situational |-> snapshot.situational_context,
     meta |-> snapshot.meta_context]

\* ShiftDetector._flatten_context of a context whose values are dicts of
\* plain values: the dotted keys with their values
flatten_context(context) ==
    UNION {{<<t, k, context[t][k]>> : k \in DOMAIN context[t]} : t \in DOMAIN context}

FlatKeys(flat) == {<<e[1], e[2]>> : e \in flat}

\* ShiftDetector.calculate_diff
calculate_diff(snapshot, new_context) ==
    LET old_flat == flatten_context(get_all_context(snapshot))
        new_flat == flatten_context(new_context)
        old_keys == FlatKeys(old_flat)
        new_keys == FlatKeys(new_flat)
        added_keys == new_keys \ old_keys
        removed_keys == old_keys \ new_keys
        modified_keys == {k \in old_keys \cap new_keys :
                            \E o \in old_flat, n \in new_flat :
                               /\ <<o[1], o[2]>> = k /\ <<n[1], n[2]>> = k
                               /\ o[3] # n[3]}
    IN [added_keys |-> added_keys, removed_keys |-> removed_keys,
        modified_keys |-> modified_keys,
        change_count |-> Cardinality(added_keys) + Cardinality(removed_keys)
                         + Cardinality(modified_keys)]

\* ContextDiff()
EmptyDiff ==
    [added_keys |-> {}, removed_keys |-> {}, modified_keys |-> {}, change_count |-> 0]

Truthy(d) == DOMAIN d # {}

\* bool(v) of a string or None
StrTruthy(v) == v # None /\ v # ""

\* a or b
PyOr(a, b) == IF StrTruthy(a) THEN a ELSE b

\* ShiftDetector._is_location_change for dicts without coordinates
is_location_change(current, new) ==
    IF ~Truthy(current) \/ ~Truthy(new) THEN Truthy(new) /\ ~Truthy(current)
    ELSE IF dict_get(current, "city", None) # dict_get(new, "city", None) THEN TRUE
    ELSE IF dict_get(current, "region", None) # dict_get(new, "region", None) THEN TRUE
    ELSE FALSE

is_time_transition(current, new) ==
    IF ~Truthy(current) \/ ~Truthy(new) THEN FALSE
    ELSE IF dict_get(current, "day_of_week", None) # dict_get(new, "day_of_week", None)
    THEN TRUE
    ELSE LET current_period == dict_get(current, "time_of_day", None)
             new_period == dict_get(new, "time_of_day", None)
         IN /\ StrTruthy(current_period)
            /\ StrTruthy(new_period)
            /\ current_period # new_period

is_activity_change(current, new) ==
    IF ~Truthy(current) \/ ~Truthy(new) THEN Truthy(new) /\ ~Truthy(current)
    ELSE PyOr(dict_get(current, "current_task", None), dict_get(current, "activity", None))
         # PyOr(dict_get(new, "current_task", None), dict_get(new, "activity", None))

has_significant_drift(context) ==
    \E t \in DOMAIN context : dict_get(context[t], "drift_status", None) = "conflicting"

\* ShiftDetector.detect_shift
detect_shift(current, new_context) ==
    IF is_location_change(current.spatial_context,
                          dict_get(new_context, "spatial", EmptyDict))
    THEN [is_shift |-> TRUE, version_type |-> "major", trigger |-> "location_change"]
    ELSE IF is_time_transition(current.temporal_context,
                               dict_get(new_context, "temporal", EmptyDict))
    THEN [is_shift |-> TRUE, version_type |-> "minor", trigger |-> "time_transition"]
    ELSE IF is_activity_change(current.situational_context,
                               dict_get(new_context, "situational", EmptyDict))
    THEN [is_shift |-> TRUE, version_type |-> "minor", trigger |-> "activity_change"]
    ELSE IF has_significant_drift(new_context)
    THEN [is_shift |-> TRUE, version_type |-> "minor", trigger |-> "drift_detected"]
    ELSE IF calculate_diff(current, new_context).change_count > 0
    THEN [is_shift |-> TRUE, version_type |-> "patch", trigger |-> "scheduled"]
    ELSE [is_shift |-> FALSE, version_type |-> "patch", trigger |-> "scheduled"]

\* d[k] = v of a dict
dict_set(d, k, v) == [x \in DOMAIN d \cup {k} |-> IF x = k THEN v ELSE d[x]]

\* ContextVersionManager.get_snapshot by id: the snapshot, or nothing
get_snapshot_by_id(all_snapshots, user_id, snapshot_id) ==
    IF user_id \notin DOMAIN all_snapshots \/ snapshot_id = NoSnapshotId THEN <<>>
    ELSE LET hits == SelectSeq(all_snapshots[user_id],
                               LAMBDA s : s.snapshot_id = snapshot_id)
         IN IF hits = <<>> THEN <<>> ELSE <<hits[1]>>

\* ContextVersionManager.get_snapshot by version string: the first snapshot
\* of the version, or nothing
get_snapshot_by_version(all_snapshots, user_id, version) ==
    IF user_id \notin DOMAIN all_snapshots \/ version = <<>> THEN <<>>
    ELSE LET target == version_parse(version)
             hits == SelectSeq(all_snapshots[user_id],
                       LAMBDA s : version_str(s.version) = version_str(target))
         IN IF hits = <<>> THEN <<>> ELSE <<hits[1]>>

\* snapshots[-n:]
LastN(list, n) ==
    IF n = 0 \/ n >= Len(list) THEN list
    ELSE SubSeq(list, Len(list) - n + 1, Len(list))

\* ContextVersionManager._prune_history keeping one snapshot more
prune_history_one_more(list, cap) ==
    IF Len(list) <= cap + 1 THEN list ELSE LastN(list, cap + 1)

\* ContextVersionManager._prune_history: the user's list after it
prune_history(list, cap) ==
    IF Len(list) <= cap THEN list ELSE LastN(list, cap)

\* ContextVersionManager.create_snapshot: the snapshot and the manager's
\* three dicts after the call; version_type and the description's version
\* are None when not given
create_snapshot(all_snapshots, versions, latest_ids, cap, new_id, user_id, context, trigger, description, tags, version_type) ==
    LET current_version == dict_get(versions, user_id, SemanticVersion(1, 0, 0))
        parent_id == dict_get(latest_ids, user_id, NoSnapshotId)
        parent == get_snapshot_by_id(all_snapshots, user_id, parent_id)
        detected == detect_shift(parent[1], context)
        detecting == version_type = None /\ parent # <<>>
        the_type == IF detecting THEN detected.version_type
                    ELSE IF version_type = None THEN "major"
                    ELSE version_type
        the_trigger == IF detecting /\ trigger = "manual_snapshot" THEN detected.trigger
                       ELSE trigger
        new_version == bump(current_version, the_type)
        snapshot == ContextSnapshot(new_id, user_id, new_version, the_trigger, context,
                                    parent_id, description, tags)
        list == IF user_id \in DOMAIN all_snapshots THEN all_snapshots[user_id] ELSE <<>>
    IN [snapshot |-> snapshot,
        snapshots |-> dict_set(all_snapshots, user_id,
                               prune_history(Append(list, snapshot), cap)),
        current_versions |-> dict_set(versions, user_id, new_version),
        latest |-> dict_set(latest_ids, user_id, new_id)]

\* history: no restore call yet
NoRestore ==
    [op |-> "none", user_id |-> "", success |-> FALSE, restored_snapshot |-> <<>>,
     new_snapshot |-> <<>>, change_count |-> 0, latest_before |-> NoSnapshotId,
     version_before |-> SemanticVersion(0, 0, 0)]

\* the four context types of a snapshot
ContextTypes == {"temporal", "spatial", "situational", "meta"}

\* a dict object is known by the snapshot and the type it was first stored
\* for; of: snapshot id and type -> the dict object the field refers to;
\* held: the dict objects the caller built and passed in
NoDictObjects == [of |-> EmptyDict, held |-> {}]

\* create_snapshot stores context.get(type, {}) as it is: the caller's own
\* dict where the context has the type, a new empty dict where it has not
StoreCallerDicts(objects, new_id, context) ==
    [of |-> [x \in DOMAIN objects.of \cup {<<new_id, t>> : t \in ContextTypes} |->
                IF x[1] = new_id THEN x ELSE objects.of[x]],
     held |-> objects.held \cup {<<new_id, t>> : t \in DOMAIN context}]

\* restore_to_version hands target.get_all_context() to create_snapshot: the
\* new snapshot's fields refer to the target's dicts
StoreTargetDicts(objects, new_id, target_id) ==
    [of |-> [x \in DOMAIN objects.of \cup {<<new_id, t>> : t \in ContextTypes} |->
                IF x[1] = new_id THEN objects.of[<<target_id, x[2]>>] ELSE objects.of[x]],
     held |-> objects.held]

VersionInit ==
    /\ snapshots = EmptyDict
    /\ current_versions = EmptyDict
    /\ latest = EmptyDict
    /\ next_snapshot_id = 1
    /\ dict_objects = NoDictObjects
    /\ last_restore = NoRestore

\* one create_snapshot call
CreateSnapshot(user_id, context, trigger, version_type) ==
    /\ next_snapshot_id <= MaxSnapshots
    /\ UNCHANGED <<busvars, memvars, driftvars, decayvars, timevars, composevars>>
    /\ LET r == create_snapshot(snapshots, current_versions, latest, max_history,
                                next_snapshot_id, user_id, context, trigger,
                                None, <<>>, version_type)
       IN /\ snapshots' = r.snapshots
          /\ current_versions' = r.current_versions
          /\ latest' = r.latest
    /\ next_snapshot_id' = next_snapshot_id + 1
    /\ dict_objects' = StoreCallerDicts(dict_objects, next_snapshot_id, context)
    /\ last_restore' = NoRestore
    /\ UNCHANGED max_history

\* one restore_to_version call, made directly (op "restore_to_version") or
\* by restore_to_snapshot
RestoreCall(op, user_id, version, create_restore_snapshot) ==
    LET target == get_snapshot_by_version(snapshots, user_id, version)
        latest_before == dict_get(latest, user_id, NoSnapshotId)
        current == get_snapshot_by_id(snapshots, user_id, latest_before)
        diff == IF current # <<>>
                THEN calculate_diff(current[1], get_all_context(target[1]))
                ELSE EmptyDiff
        r == create_snapshot(snapshots, current_versions, latest, max_history,
                             next_snapshot_id, user_id, get_all_context(target[1]),
                             "manual_snapshot", version, <<"restoration", version>>,
                             "major")
    IN IF target = <<>>
       THEN /\ last_restore' = [NoRestore EXCEPT !.op = op, !.user_id = user_id]
            /\ UNCHANGED <<snapshots, current_versions, latest, next_snapshot_id, dict_objects>>
       ELSE IF create_restore_snapshot
       THEN /\ next_snapshot_id <= MaxSnapshots
            /\ snapshots' = r.snapshots
            /\ current_versions' = r.current_versions
            /\ latest' = r.latest
            /\ next_snapshot_id' = next_snapshot_id + 1
            /\ dict_objects' = StoreTargetDicts(dict_objects, next_snapshot_id,
                                                target[1].snapshot_id)
            /\ last_restore' =
                 [op |-> op, user_id |-> user_id, success |-> TRUE,
                  restored_snapshot |-> target, new_snapshot |-> <<r.snapshot>>,
                  change_count |-> diff.change_count,
                  latest_before |-> latest_before,
                  version_before |-> dict_get(current_versions, user_id,
                                              SemanticVersion(1, 0, 0))]
       ELSE /\ last_restore' =
                 [op |-> op, user_id |-> user_id, success |-> TRUE,
                  restored_snapshot |-> target, new_snapshot |-> <<>>,
                  change_count |-> diff.change_count,
                  latest_before |-> latest_before,
                  version_before |-> dict_get(current_versions, user_id,
                                              SemanticVersion(1, 0, 0))]
            /\ UNCHANGED <<snapshots, current_versions, latest, next_snapshot_id, dict_objects>>

RestoreToVersion(user_id, version, create_restore_snapshot) ==
    /\ UNCHANGED <<busvars, memvars, driftvars, decayvars, timevars, composevars, max_history>>
    /\ RestoreCall("restore_to_version", user_id, version, create_restore_snapshot)

RestoreToSnapshot(user_id, snapshot_id, create_restore_snapshot) ==
    /\ UNCHANGED <<busvars, memvars, driftvars, decayvars, timevars, composevars, max_history>>
    /\ LET target == get_snapshot_by_id(snapshots, user_id, snapshot_id)
       IN IF target = <<>>
          THEN /\ last_restore' = [NoRestore EXCEPT !.op = "restore_to_snapshot",
                                                    !.user_id = user_id]
               /\ UNCHANGED <<snapshots, current_versions, latest, next_snapshot_id, dict_objects>>
          ELSE RestoreCall("restore_to_snapshot", user_id,
                           version_str(target[1].version), create_restore_snapshot)

\* the snapshot after d[key] = value on the dict object: its fields that
\* refer to the object show the write, its stored checksum stays
write_through(snapshot, objects, object, key, value) ==
    IF objects.of[<<snapshot.snapshot_id, object[2]>>] # object THEN snapshot
    ELSE IF object[2] = "temporal"
    THEN [snapshot EXCEPT !.temporal_context = dict_set(@, key, value)]
    ELSE IF object[2] = "spatial"
    THEN [snapshot EXCEPT !.spatial_context = dict_set(@, key, value)]
    ELSE IF object[2] = "situational"
    THEN [snapshot EXCEPT !.situational_context = dict_set(@, key, value)]
    ELSE [snapshot EXCEPT !.meta_context = dict_set(@, key, value)]

\* the writes the caller makes to a context dict it passed to create_snapshot
ContextWrites == {<<"temporal", "time_of_day", "evening">>}

\* the caller updates its context in place: context[type][key] = value on a
\* dict it handed to create_snapshot earlier
MutateContext(object, key, value) ==
    /\ object \in dict_objects.held
    /\ snapshots' = [u \in DOMAIN snapshots |->
                        [i \in 1..Len(snapshots[u]) |->
                            write_through(snapshots[u][i], dict_objects, object,
                                          key, value)]]
    /\ last_restore' = NoRestore
    /\ UNCHANGED <<busvars, memvars, driftvars, decayvars, timevars, composevars, current_versions, latest,
                   max_history, next_snapshot_id, dict_objects>>

\* the version strings a restore is asked for: full ones and major-only ones
VersionStrings ==
    {<<2>>, <<3>>, <<2, 0, 0>>, <<2, 1, 0>>, <<3, 0, 0>>, <<2, 0, 1>>}

VersionNext ==
    \/ \E u \in Users, c \in SnapshotContexts :
          CreateSnapshot(u, c, "manual_snapshot", None)
    \/ \E u \in Users : CreateSnapshot(u, EmptyDict, "session_start", "minor")
    \/ \E u \in Users, v \in VersionStrings, create \in BOOLEAN :
          RestoreToVersion(u, v, create)
    \/ \E u \in Users, i \in 1..MaxSnapshots, create \in BOOLEAN :
          RestoreToSnapshot(u, i, create)

DriftNext ==
    \/ \E i \in RecIds, t \in StoreTiers, v \in Timezones,
           c \in {FLOAT_0_9, FLOAT_0_5} : Construct(i, t, v, c, 23)
    \/ \E i \in RecIds : RecordCorrection(i)
    \/ \E i \in RecIds : Confirm(i)
    \/ \E S \in SUBSET RecIds : Detect(S)
    \/ \E i \in RecIds, q \in SignalLists : UpdateDriftStatus(i, q)
    \/ \E i \in RecIds : UpdateDriftStatus(i, report.signals)
    \/ HoursPass(18)

BusNext ==
    \/ \E r \in RequestIds : ResolveFastOnly(r)
    \/ \E r \in RequestIds : ResolveStart(r)
    \/ \E r \in RequestIds : Publish(r)
    \/ \E r \in RequestIds : PublishFail(r)
    \/ \E r \in RequestIds, m \in Payloads : WorkerRespond(r, m)
    \/ \E l \in Listeners : HandleResponse(l)
    \/ \E l \in Listeners : ListenerError(l)
    \/ \E r \in RequestIds : Resume(r)
    \/ \E r \in RequestIds : DeadlinePasses(r)
    \/ \E r \in RequestIds : Timeout(r)

\* ============================================================ contextual decay

MaxDecayCalls == 2

ConflictResolutions == {"user_wins", "sensor_wins", "newer_wins", "confidence_wins", "merge"}
ContextSources == {"user_explicit", "user_implicit", "sensor", "api", "inference", "historical"}

\* the types, key, values, confidences and waits between calls that are drawn:
\* a type with a fixed TTL and the session-based one, a wait that outlives no
\* entry and one that outlives every temporal entry
DecayTypes == {"temporal", "situational"}
DecayKeyNames == {"k"}
DecayValues == {"a", "b"}
DecayConfidences == {FLOAT_0_5, FLOAT_1_0}
DecayWaits == {1, 61}

NoStrategy == "None"
NoExpiry == -1
NoContextEntry == [key |-> "None"]

TTLConfig(default_ttl_seconds, min_ttl_seconds, max_ttl_seconds) == [default_ttl_seconds |-> default_ttl_seconds, min_ttl_seconds |-> min_ttl_seconds, max_ttl_seconds |-> max_ttl_seconds]

\* int(default_ttl_seconds * confidence) clamped to the configured range; the
\* product is taken on the confidence's leading 14 fraction bits, which is
\* the whole of every confidence in DecayConfidences
get_ttl(config, confidence) ==
    LET adjusted == (config.default_ttl_seconds * (confidence.hi \div 16384)) \div 16384
    IN  Max(config.min_ttl_seconds, Min(adjusted, config.max_ttl_seconds))

DEFAULT_TTLS ==
    [temporal |-> TTLConfig(60, 30, 300),
     spatial |-> TTLConfig(1800, 300, 7200),
     situational |-> TTLConfig(0, 0, 0),
     meta |-> TTLConfig(86400, 3600, 604800)]

SOURCE_PRIORITY_sensor_above_api ==
    [source \in ContextSources |->
        CASE source = "user_explicit" -> 100
          [] source = "user_implicit" -> 80
          [] source = "api" -> 50
          [] source = "sensor" -> 60
          [] source = "inference" -> 40
          [] source = "historical" -> 20]

SOURCE_PRIORITY ==
    [source \in ContextSources |->
        CASE source = "user_explicit" -> 100
          [] source = "user_implicit" -> 80
          [] source = "api" -> 60
          [] source = "sensor" -> 50
          [] source = "inference" -> 40
          [] source = "historical" -> 20]

\* SOURCE_PRIORITY.get(source, 0)
source_priority(source) == IF source \in DOMAIN SOURCE_PRIORITY THEN SOURCE_PRIORITY[source] ELSE 0

calculate_expiry(now, context_type, confidence) ==
    LET config == DEFAULT_TTLS[context_type]
    IN  IF config.default_ttl_seconds = 0 THEN NoExpiry
        ELSE now + get_ttl(config, confidence)

ContextEntry(key, value, context_type, source, confidence, created_at, expires_at) == [key |-> key, value |-> value, context_type |-> context_type, source |-> source, confidence |-> confidence, created_at |-> created_at, expires_at |-> expires_at]

is_expired(entry, now) == IF entry.expires_at = NoExpiry THEN FALSE ELSE now > entry.expires_at

\* f"{context_type.value}:{key}"
entry_key(context_type, key) == <<context_type, ":", key>>

EntryKeys == {entry_key(t, k) : t \in DecayTypes, k \in DecayKeyNames}

ConflictResult(winning_value, winning_source, resolution_method, merged) == [winning_value |-> winning_value, winning_source |-> winning_source, resolution_method |-> resolution_method, merged |-> merged]

NoConflictResult == [resolution_method |-> "None"]

\* the values drawn are strings: neither a dict nor a list, the scalar branch
merge_values(existing, incoming) == incoming

resolve_conflict(self_default_resolution, existing, incoming, given_strategy) ==
    LET strategy == IF given_strategy = NoStrategy THEN self_default_resolution ELSE given_strategy
        keep_incoming(method) == ConflictResult(incoming.value, incoming.source, method, FALSE)
        keep_existing(method) == ConflictResult(existing.value, existing.source, method, FALSE)
    IN  IF strategy = "user_wins" /\ incoming.source = "user_explicit" THEN keep_incoming(strategy)
        ELSE IF strategy = "user_wins" /\ existing.source = "user_explicit" THEN keep_existing(strategy)
        ELSE IF strategy = "sensor_wins" /\ incoming.source = "sensor" THEN keep_incoming(strategy)
        ELSE IF strategy = "newer_wins"
             THEN IF incoming.created_at > existing.created_at
                  THEN keep_incoming(strategy) ELSE keep_existing(strategy)
        ELSE IF strategy = "confidence_wins"
             THEN IF FloatLess(existing.confidence, incoming.confidence)
                  THEN keep_incoming(strategy) ELSE keep_existing(strategy)
        ELSE IF strategy = "merge"
             THEN ConflictResult(merge_values(existing.value, incoming.value),
                                 incoming.source, strategy, TRUE)
        ELSE IF source_priority(incoming.source) > source_priority(existing.source)
             THEN keep_incoming("user_wins")
        ELSE keep_existing("user_wins")

NoConflict == [calls |-> 0, collided |-> FALSE, existing |-> NoContextEntry, incoming |-> NoContextEntry, resolution |-> NoConflictResult, entry |-> NoContextEntry]

\* ContextualDecayManager() with its default arguments, nothing stored yet
DecayInit ==
    /\ entries = [k \in EntryKeys |-> NoContextEntry]
    /\ default_resolution = "user_wins"
    /\ decay_now = 0
    /\ last_conflict = NoConflict

\* create_entry, called wait seconds after the previous call
CreateEntry(wait, key, value, context_type, source, confidence) ==
    /\ last_conflict.calls < MaxDecayCalls
    /\ LET now == decay_now + wait
           expires_at == calculate_expiry(now, context_type, confidence)
           incoming == ContextEntry(key, value, context_type, source, confidence, now, expires_at)
           k == entry_key(context_type, key)
           existing == entries[k]
           collided == existing # NoContextEntry /\ ~is_expired(existing, now)
           resolution == IF collided
                         THEN resolve_conflict(default_resolution, existing, incoming, NoStrategy)
                         ELSE NoConflictResult
           entry == IF collided
                    THEN [incoming EXCEPT !.value = resolution.winning_value,
                                          !.source = resolution.winning_source,
                                          !.confidence = FloatMax(existing.confidence, incoming.confidence)]
                    ELSE incoming
       IN  /\ decay_now' = now
           /\ entries' = [entries EXCEPT ![k] = entry]
           /\ last_conflict' = [calls |-> last_conflict.calls + 1, collided |-> collided,
                                existing |-> existing, incoming |-> incoming,
                                resolution |-> resolution, entry |-> entry]
    /\ UNCHANGED <<busvars, memvars, driftvars, composevars, versionvars, timevars,
                   default_resolution>>

DecayNext ==
    \E wait \in DecayWaits, key \in DecayKeyNames, value \in DecayValues,
       context_type \in DecayTypes, source \in ContextSources,
       confidence \in DecayConfidences :
          CreateEntry(wait, key, value, context_type, source, confidence)

\* ============================================================ temporal engine

MaxHours == 52

NoTz == "None"
NotRaised == "None"

\* the zone database: the keys drawn that it holds, with the UTC offset in
\* seconds each has throughout the hours drawn
ZoneOffsets ==
    [key \in {"UTC", "Asia/Kolkata", "America/New_York"} |->
        CASE key = "UTC" -> 0
          [] key = "Asia/Kolkata" -> 19800
          [] key = "America/New_York" -> -18000]

KnownZones == DOMAIN ZoneOffsets
UnknownZones == {"Mars/Phobos"}

\* ZoneInfo(key): the zone, or ZoneInfoNotFoundError for a key the database lacks
ZoneInfo(key) == IF key \in KnownZones THEN [raised |-> NotRaised, key |-> key] ELSE [raised |-> "ZoneInfoNotFoundError", key |-> key]

\* a datetime: its wall clock in seconds since 00:00 on Saturday 3 January
\* 2026, and the key of its tzinfo (NoTz for a naive one)
datetime(wall, tzinfo) == [wall |-> wall, tzinfo |-> tzinfo]
NoDatetime == [tzinfo |-> "absent"]

utcoffset(dt) == ZoneOffsets[dt.tzinfo]
astimezone(dt, key) == datetime(dt.wall - utcoffset(dt) + ZoneOffsets[key], key)
replace_tzinfo(dt, key) == datetime(dt.wall, key)
date_of(dt) == dt.wall \div 86400
hour_of(dt) == (dt.wall % 86400) \div 3600
minute_of(dt) == (dt.wall % 3600) \div 60
weekday_of(date) == (date + 5) % 7
\* aware datetimes subtract as instants
total_seconds(later, earlier) == (later.wall - utcoffset(later)) - (earlier.wall - utcoffset(earlier))

WeekdayNames == <<"Monday", "Tuesday", "Wednesday", "Thursday", "Friday", "Saturday", "Sunday">>
Pad2(n) == IF n < 10 THEN "0" \o ToString(n) ELSE ToString(n)
\* strftime of a date within January 2026 or of a time
strftime_B_d(date) == "January " \o Pad2(date + 3)
strftime_A_B_d(date) == WeekdayNames[weekday_of(date) + 1] \o ", " \o strftime_B_d(date)
strftime_A_B_d_Y(date) == strftime_A_B_d(date) \o ", 2026"
strftime_H_M(dt) == Pad2(hour_of(dt)) \o ":" \o Pad2(minute_of(dt))
strftime_I_M_p(dt) ==
    LET hour12 == IF hour_of(dt) % 12 = 0 THEN 12 ELSE hour_of(dt) % 12
    IN  Pad2(hour12) \o ":" \o Pad2(minute_of(dt)) \o (IF hour_of(dt) < 12 THEN " AM" ELSE " PM")

\* the instants drawn: the first and the last minute of every hour
Instants == {h * 3600 + m * 60 : h \in 0..(MaxHours - 1), m \in {0, 59}}
SessionStarts == {t \in Instants : t < 86400}

TIME_OF_DAY_RANGES == <<<<"late_night", 0, 5>>, <<"early_morning", 5, 8>>, <<"morning", 8, 12>>, <<"afternoon", 12, 17>>, <<"evening", 17, 21>>, <<"night", 21, 24>>>>

get_time_of_day(hour) ==
    LET hits == {i \in 1..Len(TIME_OF_DAY_RANGES) :
                    TIME_OF_DAY_RANGES[i][2] <= hour /\ hour < TIME_OF_DAY_RANGES[i][3]}
    IN  IF hits = {} THEN "night"
        ELSE TIME_OF_DAY_RANGES[CHOOSE i \in hits : \A j \in hits : i <= j][1]

get_day_type(date) == IF weekday_of(date) >= 5 THEN "weekend" ELSE "weekday"

\* interpret without a session start; the record leaves out the float fields
\* utc_offset_hours and session_duration_minutes, and the season
interpret(self_default_timezone, timestamp, timezone) ==
    LET tz_str == IF timezone = NoTz THEN self_default_timezone ELSE timezone
        tz == ZoneInfo(tz_str)
        local == IF timestamp.tzinfo = NoTz THEN replace_tzinfo(timestamp, tz_str)
                 ELSE astimezone(timestamp, tz_str)
    IN  IF tz.raised # NotRaised THEN [raised |-> tz.raised]
        ELSE [raised |-> NotRaised,
              timestamp |-> local,
              timezone |-> tz_str,
              date |-> date_of(local),
              hour |-> hour_of(local),
              minute |-> minute_of(local),
              weekday |-> weekday_of(date_of(local)),
              weekday_name |-> WeekdayNames[weekday_of(date_of(local)) + 1],
              utc_timestamp |-> astimezone(local, "UTC"),
              time_of_day |-> get_time_of_day(hour_of(local)),
              day_type |-> get_day_type(date_of(local)),
              session_start |-> NoDatetime]

today_is_session_day_by_hour_alone(minutes_since_midnight, seconds_in_session) == minutes_since_midnight < 4 * 60

\* hours_since_midnight < 4 and hours_in_session < 6, on whole minutes and seconds
today_is_session_day(minutes_since_midnight, seconds_in_session) == minutes_since_midnight < 4 * 60 /\ seconds_in_session < 6 * 3600

MidnightCrossoverContext(session_started_date, current_date, has_crossed_midnight, today_interpretation, today_date, yesterday_interpretation, confidence, reasoning) == [raised |-> NotRaised, session_started_date |-> session_started_date, current_date |-> current_date, has_crossed_midnight |-> has_crossed_midnight, today_interpretation |-> today_interpretation, today_date |-> today_date, yesterday_interpretation |-> yesterday_interpretation, yesterday_date |-> today_date - 1, confidence |-> confidence, reasoning |-> reasoning]

FLOAT_0_6 == Double(161061273, 161061272)
FLOAT_0_7 == Double(187904819, 53687088)
FLOAT_0_75 == Double(201326592, 0)
FLOAT_0_85 == Double(228170137, 161061272)
FLOAT_0_95 == Double(255013683, 53687088)
FLOAT_0_99 == Double(265751101, 118111600)

\* the reasoning is kept as the pieces of its f-string, in order
handle_midnight_crossover(session_start, current_time, timezone) ==
    LET tz == ZoneInfo(timezone)
        session_start_local == astimezone(session_start, timezone)
        current_local == astimezone(current_time, timezone)
        session_date == date_of(session_start_local)
        current_date == date_of(current_local)
        minutes_since_midnight == hour_of(current_local) * 60 + minute_of(current_local)
        seconds_in_session == total_seconds(current_time, session_start)
        crossed(today_date, confidence, reasoning) ==
            MidnightCrossoverContext(session_date, current_date, TRUE,
                "refers to " \o strftime_A_B_d(today_date), today_date,
                "refers to " \o strftime_A_B_d(today_date - 1), confidence, reasoning)
    IN  IF tz.raised # NotRaised THEN [raised |-> tz.raised]
        ELSE IF session_date = current_date
        THEN MidnightCrossoverContext(session_date, current_date, FALSE,
                "the current calendar day", current_date, "the previous calendar day",
                FLOAT_0_95,
                <<"Session has not crossed midnight, standard interpretation applies.">>)
        ELSE IF today_is_session_day(minutes_since_midnight, seconds_in_session)
        THEN crossed(session_date, FLOAT_0_7,
                <<"Session started at ", strftime_H_M(session_start_local),
                  " and current time is ", strftime_H_M(current_local), ". ",
                  "Since it's early morning and the session is recent, ",
                  "'today' likely refers to ", strftime_B_d(session_date), ".">>)
        ELSE crossed(current_date, FLOAT_0_85,
                <<"Session has crossed midnight. Using calendar day interpretation. ",
                  "'Today' refers to ", strftime_B_d(current_date), ".">>)

\* a reference text is kept as its tokens: words, and " " for blanks at
\* either end; words inside a text are one blank apart
ReferenceTexts ==
    {<<"now">>, <<"right", "now">>, <<"just", "now">>, <<"recently">>,
     <<"a", "moment", "ago">>, <<" ", "Just", "Now", " ">>, <<"earlier">>, <<"soon">>,
     <<"later">>, <<"shortly">>, <<"today">>, <<"yesterday">>,
     <<"day", "before", "yesterday">>, <<"right", "now", "today">>, <<"whenever">>}

lower_word(word) ==
    CASE word = "Just" -> "just"
      [] word = "Now" -> "now"
      [] OTHER -> word

lower(tokens) == [i \in DOMAIN tokens |-> lower_word(tokens[i])]

RECURSIVE strip(_)
strip(tokens) ==
    IF tokens = <<>> THEN tokens
    ELSE IF Head(tokens) = " " THEN strip(Tail(tokens))
    ELSE IF tokens[Len(tokens)] = " " THEN strip(SubSeq(tokens, 1, Len(tokens) - 1))
    ELSE tokens

RECURSIVE join(_)
join(words) ==
    IF words = <<>> THEN ""
    ELSE IF Len(words) = 1 THEN words[1]
    ELSE words[1] \o " " \o join(Tail(words))

\* re.search of a pattern of whole words, each between two \b
re_search(pattern, words) ==
    \E i \in 1..(Len(words) - Len(pattern) + 1) :
        SubSeq(words, i, i + Len(pattern) - 1) = pattern

RELATIVE_DAY_PATTERNS == <<[pattern |-> <<"day", "before", "yesterday">>, day_offset |-> -2], [pattern |-> <<"day", "after", "tomorrow">>, day_offset |-> 2], [pattern |-> <<"today">>, day_offset |-> 0], [pattern |-> <<"yesterday">>, day_offset |-> -1], [pattern |-> <<"tomorrow">>, day_offset |-> 1]>>

RELATIVE_TIME_PATTERNS == <<[pattern |-> <<"now">>, time_type |-> "current"], [pattern |-> <<"right", "now">>, time_type |-> "current"], [pattern |-> <<"earlier">>, time_type |-> "past_session"], [pattern |-> <<"just", "now">>, time_type |-> "recent"], [pattern |-> <<"recently">>, time_type |-> "recent"], [pattern |-> <<"a", "moment", "ago">>, time_type |-> "recent"], [pattern |-> <<"soon">>, time_type |-> "near_future"], [pattern |-> <<"later">>, time_type |-> "future_session"], [pattern |-> <<"shortly">>, time_type |-> "near_future"]>>

\* the first pattern, in the dict's order, that the text holds; 0 for none
first_match(patterns, words) ==
    LET hits == {i \in 1..Len(patterns) : re_search(patterns[i].pattern, words)}
    IN  IF hits = {} THEN 0 ELSE CHOOSE i \in hits : \A j \in hits : i <= j

ResolvedTimeReference(original_reference, reference_type, resolved_start, resolved_end, resolution_method, confidence, is_ambiguous, alternative_resolutions, human_readable) == [original_reference |-> original_reference, reference_type |-> reference_type, resolved_start |-> resolved_start, resolved_end |-> resolved_end, resolution_method |-> resolution_method, confidence |-> confidence, is_ambiguous |-> is_ambiguous, alternative_resolutions |-> alternative_resolutions, human_readable |-> human_readable]

resolve_relative_day(text, day_offset, anchor) ==
    LET resolved_date == anchor.date + day_offset
    IN  ResolvedTimeReference(text, "relative_day",
            datetime(resolved_date * 86400, anchor.timezone),
            datetime(resolved_date * 86400 + 86399, anchor.timezone),
            "relative_day_offset_" \o ToString(day_offset), FLOAT_0_95, FALSE, <<>>,
            strftime_A_B_d_Y(resolved_date))

resolve_relative_time(text, time_type, anchor) ==
    LET now == anchor.timestamp
        shifted(seconds) == datetime(now.wall + seconds, now.tzinfo)
        minutes_ahead == IF time_type = "near_future" THEN 30 ELSE 60
    IN  CASE time_type = "current" ->
                ResolvedTimeReference(text, "relative_time", now, NoDatetime,
                    "current_moment", FLOAT_0_99, FALSE, <<>>, strftime_I_M_p(now))
          [] time_type = "recent" ->
                ResolvedTimeReference(text, "relative_time", shifted(-(15 * 60)), now,
                    "recent_window", FLOAT_0_75, TRUE,
                    <<[window |-> "5_minutes", confidence |-> FLOAT_0_5],
                      [window |-> "30_minutes", confidence |-> FLOAT_0_6]>>,
                    "within the last few minutes")
          [] time_type = "past_session" /\ anchor.session_start # NoDatetime ->
                ResolvedTimeReference(text, "relative_time", anchor.session_start,
                    shifted(-(5 * 60)), "session_earlier", FLOAT_0_7, TRUE, <<>>,
                    "earlier in this session")
          [] time_type = "past_session" /\ anchor.session_start = NoDatetime ->
                ResolvedTimeReference(text, "relative_time",
                    datetime(anchor.date * 86400, anchor.timezone), now,
                    "earlier_today", FLOAT_0_5, TRUE, <<>>, "earlier today")
          [] time_type \in {"near_future", "future_session"} ->
                ResolvedTimeReference(text, "relative_time", now,
                    shifted(minutes_ahead * 60),
                    "future_" \o ToString(minutes_ahead) \o "m", FLOAT_0_6, TRUE, <<>>,
                    "within the next " \o ToString(minutes_ahead) \o " minutes")
          [] OTHER ->
                ResolvedTimeReference(text, "implicit", now, NoDatetime, "fallback",
                    FLOAT_0_3, TRUE, <<>>, "(time reference unclear)")

\* no text drawn holds a digit or a month's name: strptime rejects it under
\* every format tried
try_parse_absolute(text, anchor) == NoDatetime

resolve_reference(reference_text, anchor_context) ==
    LET words == strip(lower(reference_text))
        text == join(words)
        day == first_match(RELATIVE_DAY_PATTERNS, words)
        time == first_match(RELATIVE_TIME_PATTERNS, words)
    IN  IF day # 0
        THEN resolve_relative_day(text, RELATIVE_DAY_PATTERNS[day].day_offset, anchor_context)
        ELSE IF time # 0
        THEN resolve_relative_time(text, RELATIVE_TIME_PATTERNS[time].time_type, anchor_context)
        ELSE ResolvedTimeReference(join(reference_text), "implicit",
                anchor_context.timestamp, NoDatetime, "fallback_to_current", FLOAT_0_2,
                TRUE, <<>>, "(unable to resolve '" \o text \o "', using current time)")

\* strftime("%z") of an aware datetime: its first three characters and the rest
strftime_z(dt) ==
    LET offset == utcoffset(dt)
        seconds == IF offset < 0 THEN -offset ELSE offset
    IN  [head |-> (IF offset < 0 THEN "-" ELSE "+") \o Pad2(seconds \div 3600),
         tail |-> Pad2((seconds % 3600) \div 60)]

isoformat(dt) == "2026-01-" \o Pad2(date_of(dt) + 3) \o "T" \o strftime_H_M(dt) \o ":00" \o strftime_z(dt).head \o ":" \o strftime_z(dt).tail

Locales == {"en-US", "en-GB", "ja-JP"}

\* the locale's prefix test, on the locales drawn
date_format_of(user_locale) ==
    IF user_locale \in {"en-GB", "en-AU"} THEN "DD/MM/YYYY"
    ELSE IF user_locale \in {"zh-CN", "ja-JP", "ko-KR"} THEN "YYYY/MM/DD"
    ELSE "MM/DD/YYYY"

AtomicContext(timestamp, timezone, timezone_offset, locale, language, currency, date_format) == [timestamp |-> timestamp, timestamp_iso |-> isoformat(timestamp), day_of_week |-> WeekdayNames[weekday_of(date_of(timestamp)) + 1], day_of_week_number |-> weekday_of(date_of(timestamp)), time_of_day |-> (IF 5 <= hour_of(timestamp) /\ hour_of(timestamp) < 12 THEN "morning" ELSE IF 12 <= hour_of(timestamp) /\ hour_of(timestamp) < 17 THEN "afternoon" ELSE IF 17 <= hour_of(timestamp) /\ hour_of(timestamp) < 21 THEN "evening" ELSE "night"), hour_24 |-> hour_of(timestamp), minute |-> minute_of(timestamp), timezone |-> timezone, timezone_offset |-> timezone_offset, locale |-> locale, language |-> language, currency |-> currency, date_format |-> date_format]

\* resolve_atomic_context when the clock reads utc_now
resolve_atomic_context(utc_now, user_timezone, user_locale, user_language, user_currency) ==
    LET tz == ZoneInfo(user_timezone)
        now == IF tz.raised = NotRaised THEN astimezone(datetime(utc_now, "UTC"), user_timezone)
               ELSE datetime(utc_now, "UTC")
        timezone == IF tz.raised = NotRaised THEN user_timezone ELSE "UTC"
        offset == strftime_z(now)
    IN  AtomicContext(now, timezone, offset.head \o ":" \o offset.tail, user_locale,
                      user_language, user_currency, date_format_of(user_locale))

NoTemporalCall == [op |-> "none"]

TemporalInit == temporal_call = NoTemporalCall

\* handle_midnight_crossover on two aware datetimes, the current one not
\* before the session's start
HandleMidnightCrossover(session_start, current_time, timezone) ==
    /\ temporal_call = NoTemporalCall
    /\ total_seconds(current_time, session_start) >= 0
    /\ temporal_call' = [op |-> "handle_midnight_crossover",
                         args |-> [session_start |-> session_start,
                                   current_time |-> current_time, timezone |-> timezone],
                         raised |-> handle_midnight_crossover(session_start, current_time, timezone).raised,
                         result |-> handle_midnight_crossover(session_start, current_time, timezone),
                         logged |-> <<>>]
    /\ UNCHANGED <<busvars, memvars, driftvars, composevars, versionvars, decayvars>>

\* TemporalEngine() with its default timezone; interpret on a naive or an
\* aware timestamp, with a timezone or none
Interpret(timestamp, timezone) ==
    /\ temporal_call = NoTemporalCall
    /\ temporal_call' = [op |-> "interpret",
                         args |-> [timestamp |-> timestamp, timezone |-> timezone],
                         raised |-> interpret("UTC", timestamp, timezone).raised,
                         result |-> interpret("UTC", timestamp, timezone),
                         logged |-> <<>>]
    /\ UNCHANGED <<busvars, memvars, driftvars, composevars, versionvars, decayvars>>

\* resolve_reference against the anchor that interpret built from an aware
\* timestamp in a zone the database holds
ResolveReference(reference_text, timestamp, timezone) ==
    /\ temporal_call = NoTemporalCall
    /\ timezone \in KnownZones
    /\ temporal_call' = [op |-> "resolve_reference",
                         args |-> [reference_text |-> reference_text,
                                   timestamp |-> timestamp, timezone |-> timezone],
                         raised |-> NotRaised,
                         result |-> resolve_reference(reference_text,
                                        interpret("UTC", timestamp, timezone)),
                         logged |-> IF first_match(RELATIVE_DAY_PATTERNS, strip(lower(reference_text))) = 0
                                       /\ first_match(RELATIVE_TIME_PATTERNS, strip(lower(reference_text))) = 0
                                    THEN <<"Unable to resolve time reference">> ELSE <<>>]
    /\ UNCHANGED <<busvars, memvars, driftvars, composevars, versionvars, decayvars>>

\* the bus's fast path, within its target time or beyond it
ResolveAtomicContext(utc_now, user_timezone, user_locale, beyond_target) ==
    /\ temporal_call = NoTemporalCall
    /\ temporal_call' = [op |-> "resolve_atomic_context",
                         args |-> [utc_now |-> utc_now, timezone |-> user_timezone,
                                   user_locale |-> user_locale],
                         raised |-> NotRaised,
                         result |-> resolve_atomic_context(utc_now, user_timezone,
                                        user_locale, "en", "USD"),
                         logged |-> IF beyond_target
                                    THEN <<"Fast path exceeded target time">> ELSE <<>>]
    /\ UNCHANGED <<busvars, memvars, driftvars, composevars, versionvars, decayvars>>

TemporalNext ==
    \/ \E s \in SessionStarts, c \in Instants, z \in KnownZones \cup UnknownZones :
          HandleMidnightCrossover(datetime(s, "UTC"), datetime(c, "UTC"), z)
    \/ \E t \in SessionStarts, given \in {NoTz, "UTC"}, z \in KnownZones \cup UnknownZones \cup {NoTz} :
          Interpret(datetime(t, given), z)
    \/ \E text \in ReferenceTexts, t \in SessionStarts, z \in KnownZones :
          ResolveReference(text, datetime(t, "UTC"), z)
    \/ \E t \in SessionStarts, z \in KnownZones \cup UnknownZones, locale \in Locales,
          beyond_target \in BOOLEAN :
          ResolveAtomicContext(t, z, locale, beyond_target)

vars == <<db_contexts, db_versions, sessions, next_id, opseq,
          cache, last_read, nreads, db_history,
          request, pending_requests, results, published, inbox, deliveries,
          late_arrivals, nresponses, contexts, report, last_call, composed,
          snapshots, current_versions, latest, max_history, next_snapshot_id,
          dict_objects, last_restore,
          entries, default_resolution, decay_now, last_conflict, temporal_call>>

Init ==
    /\ BusInit /\ MemInit /\ DriftInit /\ ComposeInit /\ VersionInit
    /\ DecayInit /\ TemporalInit
    /\ max_history = MaxHistory

MemNext ==
    \/ \E p \in Procs, k \in Keys, v \in Values, t \in StoreTiers,
           c \in StoreConfidences : StoreLookup(p, k, v, t, c)
    \/ \E p \in Procs : StoreInsert(p)
    \/ \E p \in Procs, i \in CtxIds, v \in Values \cup {NoValue},
           c \in {NoConfidence, DEFAULT_CONFIDENCE} : UpdateLoad(p, i, v, c)
    \/ \E p \in Procs : UpdateGetMax(p)
    \/ \E p \in Procs : UpdateFlush(p)
    \/ \E p \in Procs : UpdateVersion(p)
    \/ \E p \in Procs, i \in CtxIds, v \in Values : CorrectionLoad(p, i, v)
    \/ \E p \in Procs : CorrectionFlush(p)
    \/ \E p \in Procs : CorrectionVersion(p)
    \/ \E p \in Procs, i \in CtxIds : ConfirmLoad(p, i)
    \/ \E p \in Procs : ConfirmFlush(p)
    \/ \E p \in Procs, i \in CtxIds, v \in RollbackVersions : RollbackLoad(p, i, v)
    \/ \E p \in Procs : ApplyDecay(p)
    \/ \E p \in Procs, i \in CtxIds, soft \in BOOLEAN : Delete(p, i, soft)
    \/ TimePasses
    \/ \E p \in Procs : Commit(p)
    \/ \E p \in Procs : Fail(p)

MemSpec == Init /\ [][MemNext]_vars

\* the service with record_correction as its only call, made by concurrent
\* requests
CorrectionNext ==
    \/ \E p \in Procs, i \in CtxIds, v \in Values : CorrectionLoad(p, i, v)
    \/ \E p \in Procs : CorrectionFlush(p)
    \/ \E p \in Procs : CorrectionVersion(p)
    \/ \E p \in Procs : Commit(p)
    \/ \E p \in Procs : Fail(p)

CorrectionSpec == Init /\ [][CorrectionNext]_vars

\* the service with its reads, the cache and the ephemeral tier: the calls
\* that insert, remove, decay and read records, one value and one confidence
CacheNext ==
    \/ \E p \in Procs, k \in Keys, t \in CachedTiers :
           StoreLookup(p, k, "a", t, 900)
    \/ \E p \in Procs : StoreInsert(p)
    \/ \E p \in Procs : UpdateGetMax(p)
    \/ \E p \in Procs : UpdateFlush(p)
    \/ \E p \in Procs : UpdateVersion(p)
    \/ \E p \in Procs : ApplyDecay(p)
    \/ \E p \in Procs, i \in CtxIds, soft \in BOOLEAN : Delete(p, i, soft)
    \/ \E p \in Procs : CleanupExpired(p)
    \/ \E p \in Procs, t \in {NoTier, "short_term"}, active_only \in BOOLEAN,
           include_expired \in BOOLEAN :
           GetUserContext(p, t, active_only, include_expired)
    \/ \E p \in Procs : GetCacheSet(p)
    \/ \E p \in Procs, i \in CtxIds : GetById(p, i)
    \/ TimePasses
    \/ ExpiryPasses
    \/ CacheExpires
    \/ \E p \in Procs : Commit(p)
    \/ \E p \in Procs : Fail(p)

CacheSpec == Init /\ [][CacheNext]_vars

\* the composers touch no table: their runs start from the empty database
ComposeStart == Init /\ db_versions = {}

ComposeSpec == ComposeStart /\ [][ComposeNext]_vars

\* a manager is built with any positive cap up to the bound; it touches no
\* table: its runs start from the empty database
VersionStart ==
    /\ BusInit /\ MemInit /\ DriftInit /\ ComposeInit /\ VersionInit
    /\ DecayInit /\ TemporalInit
    /\ db_versions = {}
    /\ max_history \in 1..MaxHistory

VersionSpec == VersionStart /\ [][VersionNext]_vars

\* the manager's calls and its caller's writes to the contexts it passed in
SnapshotNext ==
    \/ VersionNext
    \/ \E i \in 1..MaxSnapshots, w \in ContextWrites : MutateContext(<<i, w[1]>>, w[2], w[3])

SnapshotSpec == VersionStart /\ [][SnapshotNext]_vars

BusSpec == Init /\ [][BusNext]_vars

\* the decay manager touches no table: its runs start from the empty
\* database, with any default strategy
DecayStart ==
    /\ BusInit /\ MemInit /\ DriftInit /\ ComposeInit /\ VersionInit /\ TemporalInit
    /\ max_history = MaxHistory
    /\ db_versions = {}
    /\ entries = [k \in EntryKeys |-> NoContextEntry]
    /\ default_resolution \in ConflictResolutions
    /\ decay_now = 0
    /\ last_conflict = NoConflict

DecaySpec == DecayStart /\ [][DecayNext]_vars

\* the engine and the fast path keep nothing between calls and touch no
\* table: a run is one call
TemporalStart == Init /\ db_versions = {}

TemporalSpec == TemporalStart /\ [][TemporalNext]_vars

\* the detector touches no table: its runs start from the empty database
DriftStart == Init /\ db_versions = {}

DriftSpec == DriftStart /\ [][DriftNext]_vars

\* detect on one record built with any tier, age and confidence
StalenessStart ==
    /\ BusInit /\ MemInit /\ ComposeInit /\ VersionInit
    /\ DecayInit /\ TemporalInit
    /\ max_history = MaxHistory
    /\ db_versions = {}
    /\ report = NoReport
    /\ last_call = NoCall
    /\ \E record \in StalenessRecords :
          contexts = [i \in RecIds |-> IF i = 1 THEN record ELSE NoContext]

StalenessNext == \E S \in SUBSET RecIds : Detect(S)

StalenessSpec == StalenessStart /\ [][StalenessNext]_vars

\* asyncio.wait_for arms a timer for every slow-path request and the event
\* loop runs every callback it has queued: the timer of a request that is
\* still unanswered eventually fires, its cancellation follows, and a
\* coroutine whose event is set is eventually resumed
BusFairSpec ==
    /\ BusSpec
    /\ \A r \in RequestIds :
          WF_vars(DeadlinePasses(r)) /\ WF_vars(Timeout(r)) /\ WF_vars(Resume(r))

\* ------------------------------------------------------- claims: the bus

\* C7: for every request id, the waiting request is handed a response at
\* most once, whatever duplicates arrive and however many listeners dispatch.
C7_AtMostOneDelivery == \A r \in RequestIds : deliveries[r] <= 1

\* a request was served once and a further copy of its response was handled
C7_Witness ==
    \E r \in RequestIds :
        /\ deliveries[r] = 1
        /\ r \in late_arrivals
        /\ results[r] # NoResult

\* C8 (as claimed): a response handled after its request timed out is
\* delivered to nobody and is not kept in the bus's state.
C8_LateResponseDropped ==
    \A r \in RequestIds :
        (request[r].slow_path_timeout /\ r \in late_arrivals)
            => (results[r] = NoResult /\ deliveries[r] = 0)

\* C9: a request whose slow path timed out has returned (it does not stay
\* suspended) with the atomic context alone, slow_path_timeout set, the
\* completed flag clear and no exception; and every suspended slow-path
\* request eventually returns.
C9_TimeoutReturnsAtomicOnly ==
    /\ [](\A r \in RequestIds :
            request[r].slow_path_timeout =>
                /\ request[r].pc = "done"
                /\ request[r].atomic_context
                /\ request[r].high_entropy_context = NoResult
                /\ ~request[r].slow_path_completed
                /\ ~request[r].raised)
    /\ \A r \in RequestIds :
          (request[r].pc \in {"publishing", "waiting"})
              ~> (request[r].pc \in {"done", "failed"})

\* a request timed out although a response for it had already been stored
C9_Witness ==
    \E r \in RequestIds :
        /\ request[r].slow_path_timeout
        /\ request[r].pc = "done"
        /\ results[r] # NoResult

\* C10: a pending entry exists only while its request is in flight; after
\* delivery, timeout or a publisher failure the entry is gone.
C10_PendingEntryLifetime ==
    \A r \in RequestIds :
        pending_requests[r] # NoEntry => request[r].pc \in {"publishing", "waiting"}

\* one request ended by a publisher failure, another by its deadline, a
\* third way (delivery) is covered when either of them is replaced by it
C10_Witness ==
    \E r1, r2 \in RequestIds :
        /\ request[r1].pc = "failed"
        /\ request[r2].pc = "done"
        /\ (request[r2].slow_path_timeout \/ request[r2].slow_path_completed)
        /\ pending_requests[r1] = NoEntry
        /\ pending_requests[r2] = NoEntry

\* C11: a request for which the listener handled a response while its entry
\* was pending and its deadline had not passed eventually returns with the
\* slow path marked completed; and a request that returns completed carries
\* the content of the response handled for it in time (the latest one, when
\* the worker answered more than once).
C11_AnsweredInTimeCompletes ==
    /\ [](\A r \in RequestIds :
            request[r].slow_path_completed =>
                /\ request[r].answered # "none"
                /\ request[r].high_entropy_context =
                       HighEntropyContext(r, request[r].answered))
    /\ \A r \in RequestIds :
          (request[r].answered # "none")
              ~> (request[r].pc = "done" /\ request[r].slow_path_completed)

\* a request has returned the content of a response handled before its deadline
C11_Witness ==
    \E r \in RequestIds :
        /\ request[r].pc = "done"
        /\ request[r].slow_path_completed
        /\ request[r].high_entropy_context.content \in Payloads
        /\ deliveries[r] = 1

\* the slow path of a returned result was skipped
SlowPathSkipped(res) ==
    ~res.enable_slow_path /\ ~res.slow_path_completed /\ ~res.slow_path_timeout

\* C12: every result that is returned carries the atomic context and reports
\* exactly one slow-path outcome: completed, timed out, or skipped (neither
\* flag, on a call made with the slow path disabled); the completed and the
\* timed-out flags are never both set.
C12_ExactlyOneOutcome ==
    \A r \in RequestIds :
        /\ ~(request[r].slow_path_completed /\ request[r].slow_path_timeout)
        /\ request[r].pc = "done" =>
              /\ request[r].atomic_context
              /\ \/ request[r].slow_path_completed /\ request[r].enable_slow_path
                 \/ request[r].slow_path_timeout /\ request[r].enable_slow_path
                 \/ SlowPathSkipped(request[r])

\* one call returned with the slow path skipped, another completed; the
\* timed-out outcome is reached when the second misses its deadline
C12_Witness ==
    \E r1, r2 \in RequestIds :
        /\ request[r1].pc = "done" /\ SlowPathSkipped(request[r1])
        /\ request[r2].pc = "done"
        /\ request[r2].enable_slow_path
        /\ (request[r2].slow_path_completed \/ request[r2].slow_path_timeout)

\* ------------------------------------------------ claims: context memory

VersionsOf(i) == {v \in db_versions : v.context_id = i}

ActiveRows(key) ==
    {i \in CtxIds : db_contexts[i].exists /\ db_contexts[i].is_active
                    /\ db_contexts[i].key = key}

\* C1 (as claimed): in every state, also with concurrent store calls for the
\* same key, at most one active record exists for a (user, type, key).
C1_AtMostOneActivePerKey == \A k \in Keys : Cardinality(ActiveRows(k)) <= 1

\* C2 (as claimed): the version numbers in every record's history are
\* exactly 1..N, with no gap and no duplicate.
C2_VersionsGapFree ==
    \A i \in CtxIds :
        db_contexts[i].exists =>
            /\ {v.version : v \in VersionsOf(i)} = 1..Cardinality(VersionsOf(i))
            /\ VersionsOf(i) # {}

\* C3 (as claimed): two update calls on the same record, also when they
\* overlap, receive distinct version numbers (update writes its source,
\* "system" here, into changed_by).
C3_ConcurrentUpdatesDistinctVersions ==
    \A v1, v2 \in db_versions :
        (/\ v1.context_id = v2.context_id
         /\ v1.op # v2.op
         /\ v1.changed_by = "system"
         /\ v2.changed_by = "system") => v1.version # v2.version

\* C4: what other sessions can read (the committed tables) never shows a
\* versioned write on a record without its version row, nor a version row
\* without its write on the record; a failed update shows neither.
C4_UpdateAtomicWithVersion ==
    /\ \A i \in CtxIds :
          db_contexts[i].exists =>
              db_contexts[i].applied = {v.op : v \in VersionsOf(i)}
    /\ \A v \in db_versions : db_contexts[v.context_id].exists

\* an update has flushed its change of the record, its version row is not
\* written yet, and the record already has committed history
C4_Witness ==
    \E p \in Procs :
        /\ sessions[p].pc = "u_version"
        /\ sessions[p].wctx[sessions[p].cid].kind = "update"
        /\ sessions[p].wver = {}
        /\ VersionsOf(sessions[p].cid) # {}

\* C5 (as claimed): every record with correction_count >= 3 has
\* drift_status = conflicting.
C5_CorrectedThriceIsConflicting ==
    \A i \in CtxIds :
        (db_contexts[i].exists /\ db_contexts[i].correction_count >= CORRECTION_LIMIT)
            => db_contexts[i].drift_status = "conflicting"

\* C5 (amended): the record a record_correction call has corrected, and
\* returns, has drift_status = conflicting when its correction_count is 3 or
\* more.
C5_CorrectionLeavesConflicting ==
    \A p \in Procs :
        (/\ sessions[p].kind = "correction"
         /\ sessions[p].pc \in {"rc_version", "commit"}
         /\ sessions[p].obj.correction_count >= CORRECTION_LIMIT)
            => sessions[p].obj.drift_status = "conflicting"

\* a third correction has been applied to a record that was not conflicting
C5_Witness ==
    \E p \in Procs :
        /\ sessions[p].kind = "correction"
        /\ sessions[p].pc = "commit"
        /\ sessions[p].obj.correction_count = CORRECTION_LIMIT
        /\ sessions[p].loaded.drift_status # "conflicting"

\* C6: the confidence of every record, committed or held by a session, is
\* within [0, 1]; and the rows an apply_decay call has just written have a
\* confidence of at least the floor 0.1.
C6_ConfidenceBounds ==
    /\ \A i \in CtxIds :
          db_contexts[i].exists =>
              (0 <= db_contexts[i].confidence /\ db_contexts[i].confidence <= ConfidenceUnit)
    /\ \A p \in Procs :
          /\ 0 <= sessions[p].obj.confidence
          /\ sessions[p].obj.confidence <= ConfidenceUnit
          /\ \A i \in CtxIds :
                sessions[p].wctx[i].kind \in {"insert", "update"} =>
                    /\ 0 <= VisibleRow(sessions[p], i).confidence
                    /\ VisibleRow(sessions[p], i).confidence <= ConfidenceUnit
          /\ sessions[p].kind = "decay" =>
                \A i \in CtxIds :
                    sessions[p].wctx[i].kind = "update" =>
                        VisibleRow(sessions[p], i).confidence >= MIN_CONFIDENCE

\* apply_decay has written a row whose multiplied confidence was below the
\* floor
C6_Witness ==
    \E p \in Procs, i \in CtxIds :
        /\ sessions[p].kind = "decay"
        /\ sessions[p].wctx[i].kind = "update"
        /\ db_contexts[i].confidence > MIN_CONFIDENCE
        /\ VisibleRow(sessions[p], i).confidence = MIN_CONFIDENCE

\* ------------------------------------------------ claims: drift detector

HasSignal(signals, types) ==
    \E n \in 1..Len(signals) : signals[n].drift_type \in types

\* the status update rule as the specification words it
StatusRule(signals) ==
    IF HasSignal(signals, {"conflict", "correction_pattern"}) THEN "conflicting"
    ELSE IF /\ HasSignal(signals, {"staleness"})
            /\ \E n \in 1..Len(signals) :
                  /\ signals[n].drift_type = "staleness"
                  /\ signals[n].severity * 10 > 7 * SeverityUnit
         THEN "stale"
    ELSE IF Len(signals) > 0 THEN "drifting"
    ELSE "stable"

\* C14: after update_drift_status(record, signals) the record's status is
\* conflicting if any signal is CONFLICT or CORRECTION_PATTERN; otherwise
\* stale if there is a STALENESS signal and the largest severity of the
\* STALENESS signals exceeds 0.7; otherwise drifting if there is any signal;
\* otherwise stable.
C14_StatusUpdateRule ==
    last_call.op = "update_drift_status" =>
        contexts[last_call.id].drift_status = StatusRule(last_call.signals)

\* the status was set to drifting from a list holding a STALENESS signal of
\* severity 0.7 next to a more severe signal of another type
C14_Witness ==
    /\ last_call.op = "update_drift_status"
    /\ Len(last_call.signals) = 2
    /\ last_call.signals[1].drift_type = "staleness"
    /\ last_call.signals[1].severity = SEVERITY_0_7
    /\ last_call.signals[2].severity > SEVERITY_0_7
    /\ contexts[last_call.id].drift_status = "drifting"

\* the transition table of the tests (conftest.py)
ValidTransitions ==
    {<<"stable", "drifting">>, <<"stable", "stale">>,
     <<"drifting", "stable">>, <<"drifting", "conflicting">>, <<"drifting", "stale">>,
     <<"conflicting", "stable">>, <<"conflicting", "drifting">>,
     <<"stale", "stable">>, <<"stale", "drifting">>}

\* C15 (as claimed): every change of an object's drift_status is a
\* transition of the table.
C15_TransitionsFollowTable ==
    [][\A i \in RecIds :
          (contexts[i].exists /\ contexts'[i].drift_status # contexts[i].drift_status)
              => <<contexts[i].drift_status, contexts'[i].drift_status>>
                     \in ValidTransitions]_vars

\* C16: a record_correction call that brings correction_count to 3 leaves
\* the object conflicting; one that brings it to 1 or 2 leaves the status of
\* an object that was not conflicting as it was.
C16_ThirdCorrectionFlips ==
    [][\A i \in RecIds :
          (/\ last_call'.op = "record_correction"
           /\ last_call'.id = i
           /\ contexts'[i].correction_count = contexts[i].correction_count + 1) =>
              /\ contexts'[i].correction_count = 3 =>
                    contexts'[i].drift_status = "conflicting"
              /\ (/\ contexts'[i].correction_count \in {1, 2}
                  /\ contexts[i].drift_status # "conflicting") =>
                    contexts'[i].drift_status = contexts[i].drift_status]_vars

\* an object built stable has been corrected three times, nothing else, and
\* is conflicting with its confidence clamped at 0
C16_Witness ==
    \E i \in RecIds :
        /\ contexts[i].log = <<"record_correction", "record_correction",
                               "record_correction">>
        /\ contexts[i].drift_status = "conflicting"
        /\ contexts[i].confidence = FLOAT_0_0

\* C17: an object built with confidence 0.9 (and status stable) on which
\* record_correction was called three times has a confidence strictly below
\* 0.3, correction_count 3 and status conflicting.
C17_ThreeCorrectionsBelow03 ==
    \A i \in RecIds :
        (/\ contexts[i].exists
         /\ contexts[i].initial_confidence = FLOAT_0_9
         /\ contexts[i].log = <<"record_correction", "record_correction",
                                "record_correction">>) =>
            /\ FloatLess(contexts[i].confidence, FLOAT_0_3)
            /\ contexts[i].correction_count = 3
            /\ contexts[i].drift_status = "conflicting"

\* the confidence after the three corrections: 0.29999999999999993
C17_Witness ==
    \E i \in RecIds :
        /\ contexts[i].initial_confidence = FLOAT_0_9
        /\ contexts[i].correction_count = 3
        /\ contexts[i].confidence = Double(80530636, 214748360)

\* ------------------------------------- claims: corrections, rollback, store

\* C18 (as claimed): when a record_correction call has done its writes, the
\* record it returns has the new value and source "user_correction", a
\* correction_count one higher and a confidence lower than the record it
\* loaded, and the call has added exactly one version, whose previous_value
\* is the value it replaced.
C18_CorrectionWritesThroughUpdate ==
    \A p \in Procs :
        (sessions[p].kind = "correction" /\ sessions[p].pc = "commit") =>
            LET s == sessions[p]
            IN /\ s.obj.value = s.value
               /\ s.obj.source = "user_correction"
               /\ s.obj.correction_count = s.loaded.correction_count + 1
               /\ s.obj.confidence < s.loaded.confidence
               /\ Cardinality(s.wver) = 1
               /\ \A v \in s.wver :
                     v.context_id = s.cid /\ v.previous_value = s.loaded.value

\* C19 (as claimed): when a rollback call has done its writes, the record
\* has the value of the target version, and the one version the call has
\* added is numbered above every version the record's history already holds
\* (version rows are only ever inserted, so none is rewound or renumbered).
C19_RollbackAppendsOnTop ==
    \A p \in Procs :
        (sessions[p].kind = "rollback" /\ sessions[p].pc = "commit") =>
            LET s == sessions[p]
            IN /\ \E t \in VersionsOf(s.cid) :
                     /\ t.version = s.to_version
                     /\ VisibleRow(s, s.cid).value = t.value
               /\ Cardinality(s.wver) = 1
               /\ \A n \in s.wver : \A v \in VersionsOf(s.cid) :
                     v.version < n.version

\* C20 (as claimed): when a store call has done its writes, the record a Get
\* for its key finds carries the value, tier, confidence and source the call
\* was given, whether the call inserted the record or found an active one.
C20_StoreGetRoundTrip ==
    \A p \in Procs :
        (sessions[p].kind = "store" /\ sessions[p].pc = "commit") =>
            LET s == sessions[p]
                found == VisibleRow(s, s.cid)
            IN /\ found.exists /\ found.is_active /\ found.key = s.key
               /\ found.value = s.value
               /\ found.memory_tier = s.memory_tier
               /\ found.confidence = s.confidence
               /\ found.source = s.source

\* ------------------------------------------- claims: update with no change

\* an update call that was given the value the record holds, and no
\* confidence other than the one it holds, has done its writes
UpdateSameValueDone(s) ==
    /\ s.kind = "update"
    /\ s.pc = "commit"
    /\ s.value = s.loaded.value
    /\ s.confidence \in {NoConfidence, s.loaded.confidence}

\* the call has added one version, numbered one above the latest it found
OneVersionAppended(s) ==
    /\ Cardinality(s.wver) = 1
    /\ \A v \in s.wver : v.context_id = s.cid /\ v.version = s.current_version + 1

\* C21 (as claimed): updating a record with the value it already holds
\* appends exactly one new version (version+1), and the call writes no
\* column of the record but updated_at: the record it returns equals the one
\* it loaded in every other column.
C21_SameValueUpdateChangesOnlyUpdatedAt ==
    \A p \in Procs :
        UpdateSameValueDone(sessions[p]) =>
            LET s == sessions[p]
            IN /\ OneVersionAppended(s)
               /\ s.wctx[s.cid].mask \subseteq {"aged"}
               /\ \A c \in Columns \ {"aged"} : s.obj[c] = s.loaded[c]

\* C21 (amended): updating a record with the value it already holds appends
\* exactly one new version (version+1), and the call writes no column of the
\* record but updated_at and source, which becomes the source the update was
\* given.
C21_SameValueUpdateChangesOnlySource ==
    \A p \in Procs :
        UpdateSameValueDone(sessions[p]) =>
            LET s == sessions[p]
            IN /\ OneVersionAppended(s)
               /\ s.obj.source = s.source
               /\ s.wctx[s.cid].mask \subseteq {"aged", "source"}
               /\ \A c \in Columns \ {"aged", "source"} : s.obj[c] = s.loaded[c]

\* an update has rewritten the value a record already held, on a record
\* whose confidence is not the column default and which has history
C21_Witness ==
    \E p \in Procs :
        /\ UpdateSameValueDone(sessions[p])
        /\ sessions[p].value # NoValue
        /\ sessions[p].loaded.confidence # DEFAULT_CONFIDENCE
        /\ sessions[p].current_version >= 1

\* ------------------------------------------------- claims: reads and cache

\* C22 (as claimed): every Get (by id, or the user's list when it is not
\* asked for inactive records) returns only records with is_active = true.
C22_GetReturnsOnlyActive ==
    (\/ last_read.kind = "by_id"
     \/ last_read.kind = "user" /\ last_read.active_only)
        => \A r \in last_read.rows : r.is_active

\* C23 (as claimed): a Get that does not ask for expired records returns no
\* record whose expires_at had passed when the rows were fetched, from the
\* store or from the cache; and the rows that are expired when
\* cleanup_expired runs are gone when it has run.
C23_ExpiredAbsentThenCleaned ==
    /\ (last_read.kind = "user" /\ ~last_read.include_expired)
          => \A r \in last_read.rows : r.id \notin last_read.expired_ids
    /\ \A p \in Procs :
          (sessions[p].kind = "cleanup" /\ sessions[p].pc = "commit")
              => \A i \in sessions[p].targets : ~VisibleRow(sessions[p], i).exists

\* C24 (as claimed): when a call has written or deleted a record, the
\* cached list of the user is gone and the cache entry of that context id is
\* gone or holds the record as written, so that no read after it is
\* served the record as it was before.
C24_MutationInvalidatesCache ==
    \A p \in Procs, i \in CtxIds :
        (sessions[p].pc = "commit" /\ sessions[p].wctx[i].kind # "none") =>
            LET row == VisibleRow(sessions[p], i)
            IN /\ ~cache.user_all.present
               /\ \/ cache.ctx[i] = NoDict
                  \/ /\ row.exists
                     /\ cache.ctx[i] = context_to_dict(ContextObject(i, row))

\* C25 (as claimed): the list a read is served from the cache is a list the
\* SELECT of the same call (same filters) returns, or has returned at an
\* earlier moment, on the committed table.
C25_CacheReadIsAStoreAnswer ==
    last_read.from_cache =>
        \E table \in db_history :
            last_read.rows = StoreAnswer(table, last_read.memory_tier,
                                         last_read.active_only,
                                         last_read.include_expired)

\* C26 (as claimed): the rows an apply_decay call writes are active
\* short-term rows older than the threshold, and get the multiplied and
\* floored confidence and the status stale; every other row keeps its
\* confidence and drift_status.
C26_DecayOnlyOldShortTerm ==
    \A p \in Procs :
        (sessions[p].kind = "decay" /\ sessions[p].pc = "commit") =>
            \A i \in CtxIds :
                LET before == db_contexts[i]
                    after == VisibleRow(sessions[p], i)
                IN IF sessions[p].wctx[i].kind # "none"
                   THEN /\ before.exists /\ before.is_active /\ before.aged
                        /\ before.memory_tier = "short_term"
                        /\ after.confidence = DecayedConfidence(before.confidence)
                        /\ after.drift_status = "stale"
                   ELSE /\ after.confidence = before.confidence
                        /\ after.drift_status = before.drift_status

\* ------------------------------------------------- claims: the prompt composer

\* the estimate of the first k included elements: the running total of the
\* selection loop once it has included the k-th of them
RunningTotal(included, k) == SumTokens(SubSeq(included, 1, k))

\* the included elements whose inclusion took the running total over budget
OverBudget(included, max_tokens) ==
    {k \in 1..Len(included) : RunningTotal(included, k) > max_tokens}

\* C27: every composed prompt keeps its total tokens within the allocated
\* context token budget unless a single critical element justifies the
\* overrun, and no non-critical element is included when including it takes
\* the running total above the budget.
C27_TokenBudget ==
    /\ composed.call = "compose" =>
          LET included == composed.prompt.included_context
              over == OverBudget(included, composed.max_tokens)
          IN /\ composed.prompt.total_tokens <= composed.max_tokens
                \/ Cardinality(over) = 1
             /\ \A k \in over : included[k].relevance = "critical"
    /\ composed.call = "advanced" =>
          composed.prompt.final_context_tokens
              <= composed.prompt.token_budget.allocated_context_tokens

\* C28: no field under a credential key reaches element building, so the
\* call with another value under those keys and everything else equal
\* returns the same system context.
C28_ForbiddenKeysNeverInjected ==
    composed.call = "compose" =>
        \A secret \in Secrets :
            compose(composed.max_tokens, MIN_RELEVANCE_SCORE, composed.user_message,
                    composed.temporal_context, composed.spatial_context,
                    SituationalContext(composed.sample, secret),
                    composed.injection_style).system_context
            = composed.prompt.system_context

\* ------------------------------------------------ claims: the version manager

\* the latest restore call succeeded and created its restore snapshot
RestoredWithSnapshot == last_restore.success /\ last_restore.new_snapshot # <<>>

\* the restore snapshot is one major version above the user's version before
\* the call, with minor and patch at zero
MajorBumped ==
    last_restore.new_snapshot[1].version
        = SemanticVersion(last_restore.version_before.major + 1, 0, 0)

\* C29 as claimed: restoring a user's context to a prior version creates a
\* new snapshot with a major version bump whose parent pointer is the
\* restored snapshot.
C29_RestoreParentIsRestored ==
    RestoredWithSnapshot =>
        /\ MajorBumped
        /\ last_restore.new_snapshot[1].parent_snapshot_id
               = last_restore.restored_snapshot[1].snapshot_id

\* C29, amended: restoring a user's context to a prior version creates a new
\* snapshot with a major version bump whose parent pointer is the snapshot
\* that was the user's latest before the restore.
C29_RestoreParentIsLatest ==
    RestoredWithSnapshot =>
        /\ MajorBumped
        /\ last_restore.latest_before # NoSnapshotId
        /\ last_restore.new_snapshot[1].parent_snapshot_id = last_restore.latest_before
        /\ latest[last_restore.user_id] = last_restore.new_snapshot[1].snapshot_id

\* a restore to a version that was not the latest one, made when the user's
\* version had a minor or patch part, has created its snapshot
C29_Witness ==
    /\ RestoredWithSnapshot
    /\ last_restore.restored_snapshot[1].snapshot_id # last_restore.latest_before
    /\ last_restore.version_before.minor + last_restore.version_before.patch > 0

\* C30: after any sequence of snapshot creations and restorations, the
\* number of snapshots kept for a user never exceeds the configured cap.
C30_HistoryWithinCap ==
    \A u \in DOMAIN snapshots : Len(snapshots[u]) <= max_history

\* a restore has created a snapshot for a user whose history is at the cap
\* and has lost its oldest snapshots
C30_Witness ==
    /\ RestoredWithSnapshot
    /\ LET list == snapshots[last_restore.user_id]
       IN /\ Len(list) = max_history
          /\ list[1].parent_snapshot_id # NoSnapshotId
          /\ \A i \in 1..Len(list) : list[i].snapshot_id # list[1].parent_snapshot_id

\* C31: a snapshot is immutable once written: at any later time the stored
\* snapshot's per-type maps are as they were written, so that recomputing
\* the checksum over them yields the stored checksum.
C31_SnapshotImmutable ==
    \A u \in DOMAIN snapshots : \A i \in 1..Len(snapshots[u]) :
        LET snapshot == snapshots[u][i]
        IN calculate_checksum(snapshot.temporal_context, snapshot.spatial_context,
                              snapshot.situational_context, snapshot.meta_context)
               = snapshot.checksum

\* ------------------------------------------------ claims: drift thresholds

\* the record's age signal in the report: the STALENESS signal of
\* _check_staleness
AgeSignals(i) ==
    {n \in 1..Len(report.signals) :
        /\ report.signals[n].context_id = i
        /\ report.signals[n].drift_type = "staleness"
        /\ report.signals[n].check = "age"}

\* the record's low-confidence signals in the report
ConfidenceSignals(i) ==
    {n \in 1..Len(report.signals) :
        /\ report.signals[n].context_id = i
        /\ report.signals[n].check = "confidence"}

\* the records the latest detect call was given
Detected ==
    IF last_call.op = "detect" THEN {last_call.ids[n] : n \in 1..Len(last_call.ids)}
    ELSE {}

\* C32: the detector emits a STALENESS signal for a record exactly when the
\* record's age is strictly greater than its stale window, 24 h by default
\* and 7 times that (168 h) for long-term records.
C32_StalenessExactlyPastWindow ==
    \A i \in Detected :
        LET window == IF contexts[i].memory_tier = "long_term"
                      THEN 7 * STALENESS_HOURS ELSE STALENESS_HOURS
        IN AgeSignals(i) # {} <=> contexts[i].age_hours > window

\* C35 as claimed: a record whose confidence is below 0.4 yields a
\* BEHAVIORAL_MISMATCH signal, with recommendedAction "refresh" when the
\* confidence is also below 0.2.
C35_LowConfidenceIsBehavioralMismatch ==
    \A i \in Detected :
        FloatLess(contexts[i].confidence, FLOAT_0_4) =>
            \E n \in ConfidenceSignals(i) :
                /\ report.signals[n].drift_type = "behavioral_mismatch"
                /\ FloatLess(contexts[i].confidence, FLOAT_0_2) =>
                       report.signals[n].recommended_action = "refresh"

\* C35, amended: a record whose confidence is below 0.4 yields a STALENESS
\* signal, with recommendedAction "refresh" when the confidence is also
\* below 0.2.
C35_LowConfidenceIsStaleness ==
    \A i \in Detected :
        FloatLess(contexts[i].confidence, FLOAT_0_4) =>
            \E n \in ConfidenceSignals(i) :
                /\ report.signals[n].drift_type = "staleness"
                /\ FloatLess(contexts[i].confidence, FLOAT_0_2) =>
                       report.signals[n].recommended_action = "refresh"

\* detect has reported a record below the critical threshold, younger than
\* its window, with a refresh signal
C35_Witness ==
    \E i \in Detected :
        /\ FloatLess(contexts[i].confidence, FLOAT_0_2)
        /\ AgeSignals(i) = {}
        /\ \E n \in ConfidenceSignals(i) : report.signals[n].recommended_action = "refresh"

\* ------------------------------------------- claims: concurrent corrections

\* the record_correction calls that have completed on a record: each has
\* committed one version row with changed_by = corrected_by ("user")
CompletedCorrections(i) == {v.op : v \in {w \in VersionsOf(i) : w.changed_by = "user"}}

\* C33: the correction_count of a record equals the number of
\* record_correction calls that have completed on it, also when several of
\* them run concurrently on the same record.
C33_NoCorrectionLost ==
    \A i \in CtxIds :
        db_contexts[i].exists =>
            db_contexts[i].correction_count = Cardinality(CompletedCorrections(i))

\* ------------------------------------------- claims: responses and requests

\* C34: a high-entropy context handed to a waiting request always carries
\* that request's own request id: with several requests pending at once, a
\* response for one request id never completes, and is never returned to, a
\* request with a different request id.
C34_ResponseReachesOwnRequest ==
    \A r \in RequestIds :
        /\ request[r].high_entropy_context # NoResult =>
               request[r].high_entropy_context.request_id = request[r].request_id
        /\ request[r].slow_path_completed => request[r].answered # "none"
        /\ results[r] # NoResult => results[r].request_id = r

\* two requests were pending at once and each was completed by its own
\* response, the two responses differing in content
C34_Witness ==
    \E r, q \in RequestIds :
        /\ r # q
        /\ request[r].slow_path_completed /\ request[q].slow_path_completed
        /\ request[r].high_entropy_context.content # request[q].high_entropy_context.content
        /\ request[r].high_entropy_context.content \in Payloads
        /\ request[q].high_entropy_context.content \in Payloads

\* ------------------------------------------------ claims: version order

\* semantic version order: major, then minor, then patch
VersionLess(a, b) ==
    \/ a.major < b.major
    \/ a.major = b.major /\ a.minor < b.minor
    \/ a.major = b.major /\ a.minor = b.minor /\ a.patch < b.patch

\* C36: for each user, every newly created snapshot, the one a restoration
\* creates included, has a version strictly greater than the versions of all
\* snapshots created earlier for that user (snapshot ids are given in
\* creation order; the user's current version is the newest snapshot's).
C36_VersionsStrictlyIncrease ==
    \A u \in DOMAIN snapshots :
        /\ \A i, j \in 1..Len(snapshots[u]) :
              snapshots[u][i].snapshot_id < snapshots[u][j].snapshot_id =>
                  VersionLess(snapshots[u][i].version, snapshots[u][j].version)
        /\ \A i \in 1..Len(snapshots[u]) :
              \/ snapshots[u][i].version = current_versions[u]
              \/ VersionLess(snapshots[u][i].version, current_versions[u])

\* a restoration has created its snapshot after an earlier snapshot of the
\* user that is still kept, and a patch version is among the two
C36_Witness ==
    /\ RestoredWithSnapshot
    /\ LET list == snapshots[last_restore.user_id]
       IN /\ Len(list) = 2
          /\ list[2] = last_restore.new_snapshot[1]
          /\ list[1].version.patch > 0

\* the fixed order of sources, highest first
SourceOrder == <<"user_explicit", "user_implicit", "api", "sensor", "inference", "historical">>

SourceRank(source) == CHOOSE i \in 1..Len(SourceOrder) : SourceOrder[i] = source

\* the configured strategy names neither entry of the latest collision
StrategyUndecided ==
    /\ last_conflict.collided
    /\ \/ /\ default_resolution = "user_wins"
          /\ last_conflict.incoming.source # "user_explicit"
          /\ last_conflict.existing.source # "user_explicit"
       \/ /\ default_resolution = "sensor_wins"
          /\ last_conflict.incoming.source # "sensor"

HigherRanked(a, b) == IF SourceRank(a.source) < SourceRank(b.source) THEN a ELSE b

\* C37: when an incoming value collides with a live entry of the same user,
\* type and key and the configured strategy does not decide between them,
\* the value of the source that stands earlier in user_explicit,
\* user_implicit, api, sensor, inference, historical wins: the ConflictResult
\* and the stored entry both carry that value and that source
C37_HigherSourceWins ==
    (/\ StrategyUndecided
     /\ last_conflict.incoming.source # last_conflict.existing.source)
    => LET winner == HigherRanked(last_conflict.existing, last_conflict.incoming)
       IN  /\ last_conflict.resolution.winning_value = winner.value
           /\ last_conflict.resolution.winning_source = winner.source
           /\ last_conflict.entry.value = winner.value
           /\ last_conflict.entry.source = winner.source
           /\ entries[entry_key(last_conflict.entry.context_type, last_conflict.entry.key)]
                 = last_conflict.entry

\* under sensor_wins an api value arrives over a live sensor entry with
\* another value, and the api value is the one stored
C37_Witness ==
    /\ StrategyUndecided
    /\ default_resolution = "sensor_wins"
    /\ last_conflict.existing.source = "sensor"
    /\ last_conflict.incoming.source = "api"
    /\ last_conflict.existing.value # last_conflict.incoming.value
    /\ last_conflict.entry.value = last_conflict.incoming.value

\* the reasoning holds the piece and, right after it, the date
Mentions(reasoning, piece, date) ==
    \E i \in 1..(Len(reasoning) - 1) : reasoning[i] = piece /\ reasoning[i + 1] = date

\* C38: when the session's start and the current time fall on different local
\* dates, "today" is the session's date with confidence 0.7 if the local hour
\* is below 4 and under 6 hours have passed since the session started, and
\* the current date with confidence 0.85 otherwise; the reasoning names the
\* date of the branch taken
C38_MidnightCrossoverBranches ==
    (/\ temporal_call.op = "handle_midnight_crossover"
     /\ temporal_call.raised = NotRaised
     /\ date_of(astimezone(temporal_call.args.session_start, temporal_call.args.timezone))
           # date_of(astimezone(temporal_call.args.current_time, temporal_call.args.timezone)))
    => LET args == temporal_call.args
           r == temporal_call.result
           d_s == date_of(astimezone(args.session_start, args.timezone))
           d_t == date_of(astimezone(args.current_time, args.timezone))
           early == /\ hour_of(astimezone(args.current_time, args.timezone)) < 4
                    /\ total_seconds(args.current_time, args.session_start) < 6 * 3600
       IN  /\ r.has_crossed_midnight
           /\ IF early
              THEN /\ r.today_date = d_s
                   /\ r.confidence = FLOAT_0_7
                   /\ Mentions(r.reasoning, "'today' likely refers to ", strftime_B_d(d_s))
              ELSE /\ r.today_date = d_t
                   /\ r.confidence = FLOAT_0_85
                   /\ Mentions(r.reasoning, "'Today' refers to ", strftime_B_d(d_t))

\* outside UTC, a session that crossed the local midnight is read before 4
\* local time and six hours or more after it started: today is the current date
C38_Witness ==
    /\ temporal_call.op = "handle_midnight_crossover"
    /\ temporal_call.raised = NotRaised
    /\ temporal_call.args.timezone # "UTC"
    /\ temporal_call.result.has_crossed_midnight
    /\ hour_of(astimezone(temporal_call.args.current_time, temporal_call.args.timezone)) < 4
    /\ total_seconds(temporal_call.args.current_time, temporal_call.args.session_start) >= 6 * 3600
    /\ temporal_call.result.today_date = temporal_call.result.current_date

\* the text of the latest resolve_reference call, lowercased and stripped
ResolvedText == join(strip(lower(temporal_call.args.reference_text)))

\* C39: "now" and "right now" resolve to the anchor's instant with confidence
\* at least 0.95; "just now", "recently" and "a moment ago" resolve to the
\* window from 15 minutes before the anchor's instant up to it, with
\* confidence 0.75, and are marked ambiguous
C39_RelativeTimePhrases ==
    temporal_call.op = "resolve_reference"
    => LET r == temporal_call.result
           t == astimezone(temporal_call.args.timestamp, temporal_call.args.timezone)
       IN  /\ ResolvedText \in {"now", "right now"}
              => /\ r.resolved_start = t
                 /\ ~FloatLess(r.confidence, FLOAT_0_95)
           /\ ResolvedText \in {"just now", "recently", "a moment ago"}
              => /\ r.resolved_start = datetime(t.wall - 15 * 60, t.tzinfo)
                 /\ r.resolved_end = t
                 /\ r.confidence = FLOAT_0_75
                 /\ r.is_ambiguous

\* C40: a call given a timezone the zone database lacks returns, its result
\* is computed in UTC, and the result carries a warning
C40_UnknownTimezoneUTCWithWarning ==
    (/\ temporal_call.op \in {"interpret", "resolve_atomic_context"}
     /\ temporal_call.args.timezone \in UnknownZones)
    => /\ temporal_call.raised = NotRaised
       /\ IF temporal_call.raised = NotRaised
          THEN /\ temporal_call.result.timezone = "UTC"
               /\ temporal_call.result.timestamp.tzinfo = "UTC"
               /\ IF "warnings" \in DOMAIN temporal_call.result
                  THEN temporal_call.result.warnings # <<>>
                  ELSE FALSE
          ELSE FALSE

====
